---- MODULE Spec2Model ----
(***************************************************************************)
(* Physis: the GameData facade (src/src/gamedata.rs) over a game install   *)
(* on disk.  The disk is the directory <game>/sqpack/<repo>/ of every      *)
(* repository; the facade is the repository list and the index memo.       *)
(* File contents are opaque byte strings, named here by string tokens; the *)
(* parsers are tables over those tokens.                                   *)
(***************************************************************************)
EXTENDS Integers, Sequences, FiniteSets, TLC

VARIABLES
    disk,           \* <game>/sqpack: repository name -> [exists, files]
    repositories,   \* GameData.repositories
    index_files,    \* GameData.index_files: index filename -> parsed index
    alive,          \* FALSE once a panic has ended the program
    steps,          \* number of facade calls made so far
    writes,         \* number of those that may write to the disk
    last,           \* the last facade call: its arguments and what it returned
    parse_count,    \* history: IndexFile::from_existing calls per filename
    seen_all,       \* history: the result of the last extract(p) that returned
    seen_kept,      \* history: the same, forgotten when a destructive call runs
    reload_disk     \* history: the disk as the last reload_repositories saw it

vars == <<disk, repositories, index_files, alive, steps, writes, last, parse_count,
          seen_all, seen_kept, reload_disk>>

----------------------------------------------------------------------------
(* Bounds of the model *)

\* facade calls per session
MaxSteps == 4
\* calls of perform_repair and apply_patch per session
MaxWrites == 1
\* length of the list handed to perform_repair
MaxRepairs == 2

----------------------------------------------------------------------------
(* The install on disk *)

BaseName == "ffxiv"
Expansions == {"ex1", "ex2"}
DirNames == {BaseName} \cup Expansions

None == "None"

\* file names inside sqpack/<repo>/
VerFile == [kind |-> "ver", cat |-> 0, id |-> 0]
BckFile == [kind |-> "bck", cat |-> 0, id |-> 0]
IndexFileName(cat) == [kind |-> "index", cat |-> cat, id |-> 0]
DatFileName(cat, id) == [kind |-> "dat", cat |-> cat, id |-> id]

SentinelVersion == "2012.01.01.0000.0000"
VersionStrings == {SentinelVersion, "2023.01.01.0000.0000", "2022.05.05.0000.0000"}

NoFiles == [f \in {} |-> ""]
NoDir == [exists |-> FALSE, files |-> NoFiles]

Restrict(f, S) == [x \in S |-> f[x]]
WriteFile(files, name, content) ==
    [x \in DOMAIN files \cup {name} |-> IF x = name THEN content ELSE files[x]]

\* common::read_version: the version string of a file, None when the file is
\* missing or holds no valid version string
read_version(d, r, name) ==
    IF d[r].exists /\ name \in DOMAIN d[r].files /\ d[r].files[name] \in VersionStrings
    THEN d[r].files[name]
    ELSE None

----------------------------------------------------------------------------
(* Repositories and categories *)

\* repository::string_to_category, with the category's code
CategoryCode(tok) ==
    CASE tok = "common" -> 0
      [] tok = "bgcommon" -> 1
      [] tok = "bg" -> 2
      [] tok = "cut" -> 3
      [] tok = "chara" -> 4
      [] tok = "shader" -> 5
      [] tok = "ui" -> 6
      [] tok = "sound" -> 7
      [] tok = "vfx" -> 8
      [] tok = "ui_script" -> 9
      [] tok = "exd" -> 10
      [] tok = "game_script" -> 11
      [] tok = "music" -> 12
      [] tok = "sqpack_test" -> 18
      [] tok = "debug" -> 19
      [] OTHER -> -1

string_to_category(tok) == IF CategoryCode(tok) >= 0 THEN tok ELSE None

\* the N of ex<N>; 0 is the base repository
ExpansionNumber(name) ==
    CASE name = "ex1" -> 1
      [] name = "ex2" -> 2
      [] name = "ex3" -> 3
      [] OTHER -> 0

\* Repository::from_existing_base
from_existing_base(d) ==
    [name |-> BaseName, number |-> 0, version |-> read_version(d, BaseName, VerFile)]

\* the None of Option<Repository>
NoRepo == [name |-> None, number |-> -1, version |-> None]

\* Repository::from_existing on sqpack/<name>: an expansion, or None
from_existing(d, name) ==
    IF d[name].exists /\ ExpansionNumber(name) >= 1
    THEN [name |-> name, number |-> ExpansionNumber(name),
          version |-> read_version(d, name, VerFile)]
    ELSE NoRepo

\* Ord for Repository: the base first, expansions by number
RepoLess(a, b) == a.number < b.number

RECURSIVE InsertSorted(_, _)
InsertSorted(s, x) ==
    IF s = <<>> THEN <<x>>
    ELSE IF RepoLess(x, Head(s)) THEN <<x>> \o s
    ELSE <<Head(s)>> \o InsertSorted(Tail(s), x)

RECURSIVE SortRepos(_)
SortRepos(s) ==
    IF s = <<>> THEN <<>>
    ELSE InsertSorted(SortRepos(SubSeq(s, 1, Len(s) - 1)), s[Len(s)])

\* the orders in which fs::read_dir may return the directories of sqpack/
ScanOrders(d) ==
    LET dirs == {r \in DirNames : d[r].exists}
        n == Cardinality(dirs)
    IN {s \in [1..n -> dirs] : \A i, j \in 1..n : i # j => s[i] # s[j]}

RECURSIVE Scanned(_, _)
Scanned(d, order) ==
    IF order = <<>> THEN <<>>
    ELSE LET r == from_existing(d, Head(order))
         IN (IF r = NoRepo THEN <<>> ELSE <<r>>) \o Scanned(d, Tail(order))

\* reload_repositories without the final sort: the list in push order
reload_repositories_unsorted(repos, d, order) ==
    LET cleared == <<>>
    IN cleared \o <<from_existing_base(d)>> \o Scanned(d, order)

\* reload_repositories without the clear: the old entries stay in the list
reload_repositories_no_clear(repos, d, order) ==
    SortRepos(repos \o <<from_existing_base(d)>> \o Scanned(d, order))

\* GameData::reload_repositories on the list `repos`: clear, push the base,
\* push what the scan of sqpack/ finds, sort
reload_repositories(repos, d, order) ==
    LET cleared == <<>>
    IN SortRepos(cleared \o <<from_existing_base(d)>> \o Scanned(d, order))

----------------------------------------------------------------------------
(* Asset paths, hashes, index and dat files *)

\* an asset path, as path.split('/') tokenizes it
Paths == { <<"exd", "root.exl">>,
           <<"ex1", "exd", "a.exd">>,
           <<"ex1", "what">>,
           <<"what", "x.dat">>,
           <<"root.exl">> }

\* sqpack::calculate_hash
calculate_hash(path) ==
    CASE path = <<"exd", "root.exl">> -> 1
      [] path = <<"ex1", "exd", "a.exd">> -> 2
      [] path = <<"ex1", "what">> -> 3
      [] path = <<"what", "x.dat">> -> 4
      [] OTHER -> 5

Entry(h, id, off) == [hash |-> h, data_file_id |-> id, offset |-> off]

\* the None of Option<IndexFile>
NoIndex == [entries |-> <<Entry(-1, -1, -1)>>]

\* IndexFile::from_existing on the bytes of an index file
ParseIndex(content) ==
    CASE content = "idxA" ->
            [entries |-> <<Entry(1, 0, 128), Entry(2, 0, 256)>>]
      [] content = "idxB" ->
            [entries |-> <<Entry(1, 0, 256), Entry(2, 1, 128)>>]
      [] content = "idxEmpty" -> [entries |-> <<>>]
      [] OTHER -> NoIndex

IndexFile_from_existing(d, key) ==
    IF d[key.repo].exists /\ IndexFileName(key.cat) \in DOMAIN d[key.repo].files
    THEN ParseIndex(d[key.repo].files[IndexFileName(key.cat)])
    ELSE NoIndex

\* DatFile::read_from_offset on the bytes of a dat file
ReadBlock(content, offset) ==
    CASE content = "datA" /\ offset = 128 -> "bytesA"
      [] content = "datA" /\ offset = 256 -> "bytesB"
      [] content = "datB" /\ offset = 128 -> "bytesC"
      [] OTHER -> None

----------------------------------------------------------------------------
(* GameData: path resolution, exists, extract *)

Panic == "panic"

\* parse_repository_category reading the category of a repository path from
\* the first token instead of the second
parse_repository_category_first_token(repos, path) ==
    LET tokens == path
        hits == {i \in 1..Len(repos) : repos[i].name = tokens[1]}
        first == CHOOSE i \in hits : \A j \in hits : i <= j
    IN IF Len(tokens) < 2 THEN [tag |-> None, repo |-> NoRepo, cat |-> None]
       ELSE IF hits # {}
       THEN IF string_to_category(tokens[1]) = None
            THEN [tag |-> None, repo |-> NoRepo, cat |-> None]
            ELSE [tag |-> "Some", repo |-> repos[first],
                  cat |-> string_to_category(tokens[1])]
       ELSE IF repos = <<>>
       THEN [tag |-> Panic, repo |-> NoRepo, cat |-> None]
       ELSE IF string_to_category(tokens[1]) = None
       THEN [tag |-> None, repo |-> NoRepo, cat |-> None]
       ELSE [tag |-> "Some", repo |-> repos[1], cat |-> string_to_category(tokens[1])]

\* GameData::parse_repository_category
parse_repository_category(repos, path) ==
    LET tokens == path
        hits == {i \in 1..Len(repos) : repos[i].name = tokens[1]}
        first == CHOOSE i \in hits : \A j \in hits : i <= j
    IN IF Len(tokens) < 2 THEN [tag |-> None, repo |-> NoRepo, cat |-> None]
       ELSE IF hits # {}
       THEN IF string_to_category(tokens[2]) = None
            THEN [tag |-> None, repo |-> NoRepo, cat |-> None]
            ELSE [tag |-> "Some", repo |-> repos[first],
                  cat |-> string_to_category(tokens[2])]
       ELSE IF repos = <<>>
       THEN [tag |-> Panic, repo |-> NoRepo, cat |-> None]
       ELSE IF string_to_category(tokens[1]) = None
       THEN [tag |-> None, repo |-> NoRepo, cat |-> None]
       ELSE [tag |-> "Some", repo |-> repos[1], cat |-> string_to_category(tokens[1])]

\* the absolute index filename: <game>/sqpack/<repo>/<cat>0000.win32.index
IndexKey(repo, cat) == [repo |-> repo, cat |-> CategoryCode(cat)]

\* GameData::get_index_filename: parse_repository_category(path).unwrap()
get_index_filename(repos, path) ==
    LET rc == parse_repository_category(repos, path)
    IN IF rc.tag = "Some"
       THEN [tag |-> "Some", key |-> IndexKey(rc.repo.name, rc.cat)]
       ELSE [tag |-> Panic, key |-> IndexKey(None, "common")]

\* cache_index_file without the contains_key test: every lookup parses
cache_index_file_always_parses(memo, d, key) ==
    IF IndexFile_from_existing(d, key) = NoIndex
    THEN [tag |-> Panic, memo |-> memo]
    ELSE [tag |-> "parsed",
          memo |-> [k \in DOMAIN memo \cup {key} |->
                       IF k = key THEN IndexFile_from_existing(d, key) ELSE memo[k]]]

\* GameData::cache_index_file: the memo after the call, Panic when the unwrap
\* of IndexFile::from_existing fails
cache_index_file(memo, d, key) ==
    IF key \in DOMAIN memo THEN [tag |-> "hit", memo |-> memo]
    ELSE IF IndexFile_from_existing(d, key) = NoIndex
    THEN [tag |-> Panic, memo |-> memo]
    ELSE [tag |-> "parsed",
          memo |-> [k \in DOMAIN memo \cup {key} |->
                       IF k = key THEN IndexFile_from_existing(d, key) ELSE memo[k]]]

\* index_file.entries.iter().find(|s| s.hash == hash)
FindEntry(index, hash) ==
    LET hits == {i \in 1..Len(index.entries) : index.entries[i].hash = hash}
    IN IF hits = {} THEN Entry(-1, -1, -1)
       ELSE index.entries[CHOOSE i \in hits : \A j \in hits : i <= j]

\* GameData::get_dat_file followed by DatFile::read_from_offset
get_dat_file(d, repos, path, entry) ==
    LET rc == parse_repository_category(repos, path)
        name == DatFileName(CategoryCode(rc.cat), entry.data_file_id)
    IN IF rc.tag # "Some" THEN Panic
       ELSE IF d[rc.repo.name].exists /\ name \in DOMAIN d[rc.repo.name].files
       THEN ReadBlock(d[rc.repo.name].files[name], entry.offset)
       ELSE None

\* exists looking at the first entry of the index only
exists_first_entry(memo, d, repos, path) ==
    LET fn == get_index_filename(repos, path)
        c == cache_index_file(memo, d, fn.key)
    IN IF fn.tag = Panic THEN [result |-> Panic, memo |-> memo, key |-> fn.key, tried |-> FALSE]
       ELSE IF c.tag = Panic THEN [result |-> Panic, memo |-> memo, key |-> fn.key, tried |-> TRUE]
       ELSE [result |-> IF /\ c.memo[fn.key].entries # <<>>
                           /\ Head(c.memo[fn.key].entries).hash = calculate_hash(path)
                        THEN "true" ELSE "false",
             memo |-> c.memo, key |-> fn.key, tried |-> c.tag = "parsed"]

\* GameData::exists: [result, memo, parsed]
exists(memo, d, repos, path) ==
    LET fn == get_index_filename(repos, path)
        c == cache_index_file(memo, d, fn.key)
    IN IF fn.tag = Panic THEN [result |-> Panic, memo |-> memo, key |-> fn.key, tried |-> FALSE]
       ELSE IF c.tag = Panic THEN [result |-> Panic, memo |-> memo, key |-> fn.key, tried |-> TRUE]
       ELSE [result |-> IF FindEntry(c.memo[fn.key], calculate_hash(path)).hash >= 0
                        THEN "true" ELSE "false",
             memo |-> c.memo, key |-> fn.key, tried |-> c.tag = "parsed"]

\* GameData::extract: [result, memo, parsed]
extract(memo, d, repos, path) ==
    LET fn == get_index_filename(repos, path)
        c == cache_index_file(memo, d, fn.key)
        entry == FindEntry(c.memo[fn.key], calculate_hash(path))
    IN IF fn.tag = Panic THEN [result |-> Panic, memo |-> memo, key |-> fn.key, tried |-> FALSE]
       ELSE IF c.tag = Panic THEN [result |-> Panic, memo |-> memo, key |-> fn.key, tried |-> TRUE]
       ELSE [result |-> IF entry.hash >= 0 THEN get_dat_file(d, repos, path, entry) ELSE None,
             memo |-> c.memo, key |-> fn.key, tried |-> c.tag = "parsed"]

----------------------------------------------------------------------------
(* GameData: needs_repair and perform_repair *)

VersionFileMissing == "VersionFileMissing"
VersionFileCanRestore == "VersionFileCanRestore"

RECURSIVE needs_repair_versioned(_, _)
\* needs_repair listing the repositories that have a version
needs_repair_versioned(d, repos) ==
    IF repos = <<>> THEN <<>>
    ELSE (IF Head(repos).version # None
          THEN <<[repo |-> Head(repos).name,
                  action |-> IF read_version(d, Head(repos).name, BckFile) # None
                             THEN VersionFileCanRestore
                             ELSE VersionFileMissing]>>
          ELSE <<>>)
         \o needs_repair_versioned(d, Tail(repos))

RECURSIVE needs_repair_swapped(_, _)
\* needs_repair with the two repair actions exchanged
needs_repair_swapped(d, repos) ==
    IF repos = <<>> THEN <<>>
    ELSE (IF Head(repos).version = None
          THEN <<[repo |-> Head(repos).name,
                  action |-> IF read_version(d, Head(repos).name, BckFile) # None
                             THEN VersionFileMissing
                             ELSE VersionFileCanRestore]>>
          ELSE <<>>)
         \o needs_repair_swapped(d, Tail(repos))

RECURSIVE needs_repair(_, _)
\* GameData::needs_repair: the list of (repository, action); <<>> is None
needs_repair(d, repos) ==
    IF repos = <<>> THEN <<>>
    ELSE (IF Head(repos).version = None
          THEN <<[repo |-> Head(repos).name,
                  action |-> IF read_version(d, Head(repos).name, BckFile) # None
                             THEN VersionFileCanRestore
                             ELSE VersionFileMissing]>>
          ELSE <<>>)
         \o needs_repair(d, Tail(repos))

\* the steps of one repair action at which the file system may refuse
Faults == {"none", "remove", "remove_partial", "create", "read", "write"}

\* fs::remove_dir_all(repo_path): fails when the directory is missing or an
\* entry cannot be removed, and then may have removed the entries before it
remove_dir_all(d, r, fault, stuck) ==
    IF ~d[r].exists \/ fault = "remove" THEN [ok |-> FALSE, disk |-> d]
    ELSE IF fault = "remove_partial" /\ stuck \in DOMAIN d[r].files
    THEN [ok |-> FALSE,
          disk |-> [d EXCEPT ![r].files = Restrict(d[r].files, {stuck})]]
    ELSE [ok |-> TRUE, disk |-> [d EXCEPT ![r] = NoDir]]

\* fs::create_dir_all(repo_path)
create_dir_all(d, r, fault) ==
    IF fault = "create" THEN [ok |-> FALSE, disk |-> d]
    ELSE [ok |-> TRUE, disk |-> [d EXCEPT ![r].exists = TRUE]]

\* a write that reports success and leaves the file as it was
fs_write_nothing(d, r, name, content, fault) ==
    [ok |-> fault # "write", disk |-> d]

\* fs::write(ver_path, new_version)
fs_write(d, r, name, content, fault) ==
    IF ~d[r].exists \/ fault = "write" THEN [ok |-> FALSE, disk |-> d]
    ELSE [ok |-> TRUE, disk |-> [d EXCEPT ![r].files = WriteFile(d[r].files, name, content)]]

\* one iteration that writes the sentinel without clearing the directory
RepairOne_keeps_files(d, r, action, fault, stuck) ==
    IF action = VersionFileMissing
    THEN fs_write(d, r, VerFile, SentinelVersion, fault)
    ELSE IF fault = "read" \/ read_version(d, r, BckFile) = None
         THEN [ok |-> FALSE, disk |-> d]
         ELSE fs_write(d, r, VerFile, read_version(d, r, BckFile), fault)

\* one iteration that restores by renaming <repo>.bck to <repo>.ver
RepairOne_moves_bck(d, r, action, fault, stuck) ==
    IF action = VersionFileMissing
    THEN LET rm == remove_dir_all(d, r, fault, stuck)
             mk == create_dir_all(rm.disk, r, fault)
         IN IF ~rm.ok THEN rm
            ELSE IF ~mk.ok THEN mk
            ELSE fs_write(mk.disk, r, VerFile, SentinelVersion, fault)
    ELSE IF fault = "read" \/ read_version(d, r, BckFile) = None
         THEN [ok |-> FALSE, disk |-> d]
         ELSE LET w == fs_write(d, r, VerFile, read_version(d, r, BckFile), fault)
              IN IF ~w.ok THEN w
                 ELSE [ok |-> TRUE,
                       disk |-> [w.disk EXCEPT ![r].files =
                                    Restrict(w.disk[r].files,
                                             DOMAIN w.disk[r].files \ {BckFile})]]

\* one iteration with the arms of the match on the action exchanged
RepairOne_swapped_arms(d, r, action, fault, stuck) ==
    IF action = VersionFileCanRestore
    THEN LET rm == remove_dir_all(d, r, fault, stuck)
             mk == create_dir_all(rm.disk, r, fault)
         IN IF ~rm.ok THEN rm
            ELSE IF ~mk.ok THEN mk
            ELSE fs_write(mk.disk, r, VerFile, SentinelVersion, fault)
    ELSE IF fault = "read" \/ read_version(d, r, BckFile) = None
         THEN [ok |-> FALSE, disk |-> d]
         ELSE fs_write(d, r, VerFile, read_version(d, r, BckFile), fault)

\* one iteration of the loop of perform_repair
RepairOne(d, r, action, fault, stuck) ==
    IF action = VersionFileMissing
    THEN LET rm == remove_dir_all(d, r, fault, stuck)
             mk == create_dir_all(rm.disk, r, fault)
         IN IF ~rm.ok THEN rm
            ELSE IF ~mk.ok THEN mk
            ELSE fs_write(mk.disk, r, VerFile, SentinelVersion, fault)
    ELSE IF fault = "read" \/ read_version(d, r, BckFile) = None
         THEN [ok |-> FALSE, disk |-> d]
         ELSE fs_write(d, r, VerFile, read_version(d, r, BckFile), fault)

RECURSIVE RepairFrom(_, _, _, _, _, _)
RepairFrom(d, list, i, at, fault, stuck) ==
    IF i > Len(list)
    THEN [result |-> "Ok", failed |-> None, failidx |-> 0, disk |-> d, failpre |-> d]
    ELSE LET one == RepairOne(d, list[i].repo, list[i].action,
                              IF i = at THEN fault ELSE "none", stuck)
         IN IF one.ok THEN RepairFrom(one.disk, list, i + 1, at, fault, stuck)
            ELSE [result |-> "FailedRepair", failed |-> list[i].repo, failidx |-> i,
                  disk |-> one.disk, failpre |-> d]

RECURSIVE RepairAll(_, _, _, _, _, _, _)
\* the loop without the early return: a failed action is reported at the end
RepairAll(d, list, i, at, fault, stuck, bad) ==
    IF i > Len(list)
    THEN IF bad = 0
         THEN [result |-> "Ok", failed |-> None, failidx |-> 0, disk |-> d, failpre |-> d]
         ELSE [result |-> "FailedRepair", failed |-> list[bad].repo, failidx |-> bad,
               disk |-> d, failpre |-> d]
    ELSE LET one == RepairOne(d, list[i].repo, list[i].action,
                              IF i = at THEN fault ELSE "none", stuck)
         IN RepairAll(one.disk, list, i + 1, at, fault, stuck,
                      IF one.ok \/ bad # 0 THEN bad ELSE i)

perform_repair_keeps_going(d, list, at, fault, stuck) ==
    RepairAll(d, list, 1, at, fault, stuck, 0)

\* GameData::perform_repair; the file system refuses the step `fault` of the
\* action at position `at` of the list
perform_repair(d, list, at, fault, stuck) == RepairFrom(d, list, 1, at, fault, stuck)

\* the lists perform_repair may be handed: loaded repositories, each at
\* most once and in any order, with either action
RepairLists(repos) ==
    LET Items == [repo : {repos[i].name : i \in 1..Len(repos)},
                  action : {VersionFileMissing, VersionFileCanRestore}]
    IN UNION { {l \in [1..n -> Items] : \A i, j \in 1..n : i # j => l[i].repo # l[j].repo}
               : n \in 0..MaxRepairs }

----------------------------------------------------------------------------
(* patch::apply_patch: the chunks of one patch file *)

Chunks ==
    [kind : {"SqPackIndex"}, repo : {BaseName}, content : {"idxB"}]
    \cup [kind : {"SqPackData"}, repo : {BaseName, "ex2"}, content : {"datB"}]
    \cup [kind : {"DeleteDirectory"}, repo : {"ex1"}, content : {""}]

apply_patch(d, chunk) ==
    CASE chunk.kind = "SqPackIndex" ->
            [d EXCEPT ![chunk.repo] =
                [exists |-> TRUE,
                 files |-> WriteFile(d[chunk.repo].files, IndexFileName(10), chunk.content)]]
      [] chunk.kind = "SqPackData" ->
            [d EXCEPT ![chunk.repo] =
                [exists |-> TRUE,
                 files |-> WriteFile(d[chunk.repo].files, DatFileName(10, 0), chunk.content)]]
      [] OTHER -> [d EXCEPT ![chunk.repo] = NoDir]

----------------------------------------------------------------------------
(* The state machine *)

PackFiles == [x \in {IndexFileName(10), DatFileName(10, 0)} |->
                 IF x.kind = "index" THEN "idxA" ELSE "datA"]

\* a repository directory of a fresh or damaged install
InitDirs ==
    { [exists |-> TRUE, files |-> WriteFile(PackFiles, VerFile, "2023.01.01.0000.0000")],
      [exists |-> TRUE, files |-> WriteFile(PackFiles, BckFile, "2022.05.05.0000.0000")],
      [exists |-> TRUE, files |-> WriteFile(PackFiles, BckFile, "garbage")],
      [exists |-> TRUE, files |-> PackFiles] }

NoCall == [op |-> "none", path |-> <<>>, list |-> <<>>, result |-> None,
           failed |-> None, failidx |-> 0, pre |-> disk, failpre |-> disk,
           key |-> IndexKey(None, "common"), tried |-> FALSE,
           prev_all |-> "unseen", prev_kept |-> "unseen"]

Unseen == [p \in Paths |-> "unseen"]

Init ==
    /\ disk \in {d \in [DirNames -> InitDirs \cup {NoDir}] :
                    /\ d[BaseName].exists
                    /\ VerFile \in DOMAIN d[BaseName].files \/ d[BaseName].files = PackFiles
                    /\ d["ex1"].exists
                    /\ d["ex2"] = NoDir}
    /\ repositories = <<>>
    /\ index_files = [k \in {} |-> NoIndex]
    /\ alive = TRUE
    /\ steps = 0
    /\ writes = 0
    /\ last = NoCall
    /\ parse_count = [k \in {} |-> 0]
    /\ seen_all = Unseen
    /\ seen_kept = Unseen
    /\ reload_disk = disk

CanCall == alive /\ steps < MaxSteps
CanWrite == CanCall /\ writes < MaxWrites

Call(op) == [NoCall EXCEPT !.op = op]

ReloadRepositories ==
    /\ CanCall
    /\ \E order \in ScanOrders(disk) :
          repositories' = reload_repositories(repositories, disk, order)
    /\ reload_disk' = disk
    /\ last' = Call("reload_repositories")
    /\ steps' = steps + 1
    /\ UNCHANGED <<disk, index_files, alive, writes, parse_count, seen_all, seen_kept>>

NeedsRepair ==
    /\ CanCall
    /\ last' = [Call("needs_repair") EXCEPT
                   !.list = needs_repair(disk, repositories),
                   !.result = IF needs_repair(disk, repositories) = <<>>
                              THEN None ELSE "Some"]
    /\ steps' = steps + 1
    /\ UNCHANGED <<disk, repositories, index_files, alive, writes, parse_count,
                   seen_all, seen_kept, reload_disk>>

\* a call that can change the pack files makes earlier extractions stale
Destructive(list) == \E i \in 1..Len(list) : list[i].action = VersionFileMissing

PerformRepair ==
    /\ CanWrite
    /\ writes' = writes + 1
    /\ \E list \in RepairLists(repositories), at \in 0..MaxRepairs, fault \in Faults,
          stuck \in {IndexFileName(10)} :
          /\ (at = 0) = (fault = "none")
          /\ at <= Len(list)
          /\ LET r == perform_repair(disk, list, at, fault, stuck)
             IN /\ disk' = r.disk
                /\ last' = [Call("perform_repair") EXCEPT
                               !.list = list, !.result = r.result, !.failed = r.failed,
                               !.failidx = r.failidx, !.failpre = r.failpre]
          /\ seen_kept' = IF Destructive(list) THEN Unseen ELSE seen_kept
    /\ steps' = steps + 1
    /\ UNCHANGED <<repositories, index_files, alive, parse_count, seen_all, reload_disk>>

ApplyPatch ==
    /\ CanWrite
    /\ writes' = writes + 1
    /\ \E chunk \in Chunks : disk' = apply_patch(disk, chunk)
    /\ last' = Call("apply_patch")
    /\ seen_kept' = Unseen
    /\ steps' = steps + 1
    /\ UNCHANGED <<repositories, index_files, alive, parse_count, seen_all, reload_disk>>

\* the history kept for a lookup that went through cache_index_file
Counted(r) ==
    IF r.tried
    THEN [k \in DOMAIN parse_count \cup {r.key} |->
             IF k = r.key
             THEN (IF k \in DOMAIN parse_count THEN parse_count[k] ELSE 0) + 1
             ELSE parse_count[k]]
    ELSE parse_count

Exists ==
    /\ CanCall
    /\ \E path \in Paths :
          LET r == exists(index_files, disk, repositories, path)
          IN /\ index_files' = r.memo
             /\ alive' = (r.result # Panic)
             /\ parse_count' = Counted(r)
             /\ last' = [Call("exists") EXCEPT
                            !.path = path, !.result = r.result,
                            !.key = r.key, !.tried = r.tried]
    /\ steps' = steps + 1
    /\ UNCHANGED <<disk, repositories, writes, seen_all, seen_kept, reload_disk>>

Extract ==
    /\ CanCall
    /\ \E path \in Paths :
          LET r == extract(index_files, disk, repositories, path)
          IN /\ index_files' = r.memo
             /\ alive' = (r.result # Panic)
             /\ parse_count' = Counted(r)
             /\ last' = [Call("extract") EXCEPT
                            !.path = path, !.result = r.result,
                            !.key = r.key, !.tried = r.tried,
                            !.prev_all = seen_all[path], !.prev_kept = seen_kept[path]]
             /\ seen_all' = IF r.result = Panic THEN seen_all
                            ELSE [seen_all EXCEPT ![path] = r.result]
             /\ seen_kept' = IF r.result = Panic THEN seen_kept
                             ELSE [seen_kept EXCEPT ![path] = r.result]
    /\ steps' = steps + 1
    /\ UNCHANGED <<disk, repositories, writes, reload_disk>>

Next ==
    \/ ReloadRepositories
    \/ NeedsRepair
    \/ PerformRepair
    \/ ApplyPatch
    \/ Exists
    \/ Extract

Spec == Init /\ [][Next]_vars

----------------------------------------------------------------------------
(* Properties *)

Repaired == last.op = "perform_repair"
Listed == {last.list[i].repo : i \in 1..Len(last.list)}
LoadedNames == {repositories[i].name : i \in 1..Len(repositories)}

\* the version perform_repair writes for an item of its list
VersionFor(item) ==
    IF item.action = VersionFileMissing THEN SentinelVersion
    ELSE read_version(last.pre, item.repo, BckFile)

HoldsVersion(item) ==
    /\ VersionFor(item) # None
    /\ read_version(disk, item.repo, VerFile) = VersionFor(item)

\* C1: perform_repair walks its list in order and stops at the first action
\* that fails: it returns FailedRepair(R) for the repository R of that action,
\* every repository before R holds the version written for it, no repository
\* after R is touched; it returns Ok only if every action succeeded.
C1_StopsAtFirstError ==
    Repaired =>
        IF last.result = "Ok"
        THEN /\ last.failidx = 0
             /\ \A i \in 1..Len(last.list) : HoldsVersion(last.list[i])
        ELSE /\ last.result = "FailedRepair"
             /\ last.failidx \in 1..Len(last.list)
             /\ last.failed = last.list[last.failidx].repo
             /\ \A i \in 1..Len(last.list) :
                   /\ i < last.failidx => HoldsVersion(last.list[i])
                   /\ i > last.failidx =>
                         disk[last.list[i].repo] = last.pre[last.list[i].repo]

C1_Witness ==
    /\ Repaired
    /\ last.result = "FailedRepair"
    /\ last.failidx = 2
    /\ last.list[1].action = VersionFileCanRestore

\* C2: when perform_repair returns FailedRepair(R), the directory of R and
\* its files are as they were before the action on R began.
C2_NoPartialEffect ==
    (Repaired /\ last.result = "FailedRepair") =>
        disk[last.failed] = last.failpre[last.failed]

NeedsRepairNames == [i \in 1..Len(last.list) |-> last.list[i].repo]

RECURSIVE NamesWithoutVersion(_, _)
NamesWithoutVersion(d, repos) ==
    IF repos = <<>> THEN <<>>
    ELSE (IF read_version(d, Head(repos).name, VerFile) = None
          THEN <<Head(repos).name>> ELSE <<>>)
         \o NamesWithoutVersion(d, Tail(repos))

\* C3 (as claimed): needs_repair lists a repository iff its .ver file is
\* missing or unreadable on disk at the moment of the call, and returns None
\* exactly when no repository is in that condition.
C3_ListsByDiskNow ==
    last.op = "needs_repair" =>
        /\ NeedsRepairNames = NamesWithoutVersion(disk, repositories)
        /\ (last.result = None) = (NamesWithoutVersion(disk, repositories) = <<>>)

\* C3 (amended): needs_repair lists a repository iff it is in the repository
\* list and its .ver file was missing or unreadable when the last
\* reload_repositories read it; it returns None exactly when no loaded
\* repository is in that condition.
C3_ListsByLastReload ==
    last.op = "needs_repair" =>
        /\ NeedsRepairNames = NamesWithoutVersion(reload_disk, repositories)
        /\ (last.result = None) = (NamesWithoutVersion(reload_disk, repositories) = <<>>)

C3_Witness ==
    /\ last.op = "needs_repair"
    /\ last.result = "Some"
    /\ \E i \in 1..Len(last.list) :
          read_version(disk, last.list[i].repo, VerFile) # None

PositionOf(name) == CHOOSE k \in 1..Len(repositories) : repositories[k].name = name

\* C4: for every repository needs_repair lists, the action is
\* VersionFileCanRestore iff <repo>.bck holds a valid version string at the
\* time of the call, VersionFileMissing otherwise; the list follows the order
\* of the repository list.
C4_ActionByBackup ==
    last.op = "needs_repair" =>
        /\ \A i \in 1..Len(last.list) :
              /\ last.list[i].repo \in LoadedNames
              /\ last.list[i].action =
                    IF /\ disk[last.list[i].repo].exists
                       /\ BckFile \in DOMAIN disk[last.list[i].repo].files
                       /\ disk[last.list[i].repo].files[BckFile] \in VersionStrings
                    THEN VersionFileCanRestore
                    ELSE VersionFileMissing
        /\ \A i, j \in 1..Len(last.list) :
              i < j => PositionOf(last.list[i].repo) < PositionOf(last.list[j].repo)

C4_Witness ==
    /\ last.op = "needs_repair"
    /\ Len(last.list) = 2
    /\ last.list[1].action = VersionFileMissing
    /\ last.list[2].action = VersionFileCanRestore

\* C5: after perform_repair succeeds, the directory of every repository it
\* was given with VersionFileMissing exists and holds exactly one file,
\* <repo>.ver with the sentinel version; the directory of a repository that
\* is not in the list is unchanged.
C5_MissingLeavesOnlySentinel ==
    (Repaired /\ last.result = "Ok") =>
        /\ \A i \in 1..Len(last.list) :
              last.list[i].action = VersionFileMissing =>
                  /\ disk[last.list[i].repo].exists
                  /\ DOMAIN disk[last.list[i].repo].files = {VerFile}
                  /\ disk[last.list[i].repo].files[VerFile] = SentinelVersion
        /\ \A r \in DirNames \ Listed : disk[r] = last.pre[r]

C5_Witness ==
    /\ Repaired
    /\ last.result = "Ok"
    /\ \E i \in 1..Len(last.list) :
          /\ last.list[i].action = VersionFileMissing
          /\ {BckFile, IndexFileName(10), DatFileName(10, 0)}
                \subseteq DOMAIN last.pre[last.list[i].repo].files
    /\ DirNames \ Listed # {}

\* C6: after perform_repair succeeds, <repo>.ver of every repository it was
\* given with VersionFileCanRestore holds the version string read from
\* <repo>.bck, every other file of that repository is unchanged, and so is
\* every repository that is not in the list.
C6_RestoreCopiesBackup ==
    (Repaired /\ last.result = "Ok") =>
        /\ \A i \in 1..Len(last.list) :
              last.list[i].action = VersionFileCanRestore =>
                  LET now == disk[last.list[i].repo]
                      was == last.pre[last.list[i].repo]
                  IN /\ now.exists /\ was.exists
                     /\ DOMAIN now.files = DOMAIN was.files \cup {VerFile}
                     /\ now.files[VerFile] = was.files[BckFile]
                     /\ was.files[BckFile] \in VersionStrings
                     /\ \A f \in DOMAIN was.files \ {VerFile} :
                           now.files[f] = was.files[f]
        /\ \A r \in DirNames \ Listed : disk[r] = last.pre[r]

C6_Witness ==
    /\ Repaired
    /\ last.result = "Ok"
    /\ \E i \in 1..Len(last.list) :
          /\ last.list[i].action = VersionFileCanRestore
          /\ VerFile \notin DOMAIN last.pre[last.list[i].repo].files
    /\ DirNames \ Listed # {}

\* C7: the index memo only grows: a memoized index is never removed or
\* replaced by a later call, and no index file is parsed a second time.
C7_MemoOnlyGrows ==
    [][ /\ \A k \in DOMAIN index_files :
              k \in DOMAIN index_files' /\ index_files'[k] = index_files[k]
        /\ \A k \in DOMAIN parse_count' : parse_count'[k] <= 1 ]_vars

\* a lookup answered from the memo after the index file on disk has changed
C7_Witness ==
    /\ last.op \in {"exists", "extract"}
    /\ last.result # Panic
    /\ ~last.tried
    /\ last.key \in DOMAIN index_files
    /\ IndexFile_from_existing(disk, last.key) # index_files[last.key]

\* C8 (as claimed): any two calls of extract(p) return equal results,
\* whatever facade calls run between them.
C8_SameBytesAlways ==
    (last.op = "extract" /\ last.result # Panic /\ last.prev_all # "unseen") =>
        last.result = last.prev_all

\* C8 (amended): any two calls of extract(p) return equal results when no
\* apply_patch and no perform_repair with a VersionFileMissing action ran
\* between them.
C8_SameBytesWhileKept ==
    (last.op = "extract" /\ last.result # Panic /\ last.prev_kept # "unseen") =>
        last.result = last.prev_kept

\* a repeated extract with a VersionFileCanRestore repair in between
C8_Witness ==
    /\ last.op = "extract"
    /\ last.prev_kept \notin {"unseen", None}
    /\ last.result = last.prev_kept
    /\ writes > 0

\* C9: exists and extract never abort the program: exists returns a bool
\* and extract returns Some or None for every path and every facade state.
C9_NeverPanics ==
    last.op \in {"exists", "extract"} => last.result # Panic

\* the paths parse_repository_category is checked on
ParsePaths ==
    Paths \cup { <<"ex1">>, <<"ffxiv", "exd", "root.exl">>, <<"ffxiv", "ex1", "exd">>,
                 <<"ex2", "exd", "a.exd">>, <<"ex2", "bogus", "x">>, <<"ex1", "bg", "x">> }

\* C10: on a path whose first token is the name of a loaded repository,
\* parse_repository_category returns that repository with the category of
\* the second token, and None when the second token is no category name.
C10_RepositoryPath ==
    /\ \A p \in ParsePaths :
          p[1] \in LoadedNames =>
              LET rc == parse_repository_category(repositories, p)
              IN IF Len(p) >= 2 /\ CategoryCode(p[2]) >= 0
                 THEN /\ rc.tag = "Some"
                      /\ rc.repo = repositories[PositionOf(p[1])]
                      /\ rc.cat = p[2]
                 ELSE rc.tag = None
    /\ (last.op \in {"exists", "extract"} /\ last.path[1] \in LoadedNames) =>
          IF Len(last.path) >= 2 /\ CategoryCode(last.path[2]) >= 0
          THEN last.key = [repo |-> last.path[1], cat |-> CategoryCode(last.path[2])]
          ELSE last.result = Panic

C10_Witness ==
    /\ last.op = "extract"
    /\ last.path = <<"ex1", "exd", "a.exd">>
    /\ last.result = "bytesB"

\* C11: on a path whose first token is not the name of a loaded repository,
\* parse_repository_category returns the base repository ffxiv with the
\* category of the first token when that token is a category name, and None
\* otherwise, for every list of loaded repositories.
C11_CategoryPath ==
    \A p \in ParsePaths :
        p[1] \notin LoadedNames =>
            LET rc == parse_repository_category(repositories, p)
            IN IF CategoryCode(p[1]) >= 0
               THEN /\ rc.tag = "Some"
                    /\ rc.repo.name = BaseName
                    /\ rc.cat = p[1]
               ELSE rc.tag = None

Reloaded == last.op = "reload_repositories"

\* C12: after every reload_repositories the list holds the base repository
\* ffxiv first and the expansions after it in ascending number, whatever
\* order the scan of sqpack/ returned the directories in.
C12_BaseFirstThenAscending ==
    Reloaded =>
        /\ Len(repositories) >= 1
        /\ repositories[1].name = BaseName
        /\ \A i \in 2..Len(repositories) :
              /\ ExpansionNumber(repositories[i].name) >= 1
              /\ repositories[i].number = ExpansionNumber(repositories[i].name)
        /\ \A i, j \in 1..Len(repositories) :
              i < j => repositories[i].number < repositories[j].number

\* a reload that found the base and two expansions
C12_Witness ==
    /\ Reloaded
    /\ Len(repositories) = 3
    /\ repositories[2].name = "ex1"
    /\ repositories[3].name = "ex2"

\* C13: the names in the repository list are unique after any number of
\* reload_repositories calls: the base, pushed first and met again by the
\* scan of sqpack/, is listed once, and a reload keeps no entry of the list
\* it found.
C13_UniqueNames ==
    /\ \A i, j \in 1..Len(repositories) :
          repositories[i].name = repositories[j].name => i = j
    /\ Reloaded =>
          /\ Cardinality({i \in 1..Len(repositories) :
                             repositories[i].name = BaseName}) = 1
          /\ LoadedNames = {BaseName} \cup {r \in Expansions : disk[r].exists}

\* a reload of a list that an earlier reload had filled and a lookup had used
C13_Witness ==
    /\ Reloaded
    /\ DOMAIN index_files # {}
    /\ Len(repositories) >= 2
    /\ disk[BaseName].exists

----------------------------------------------------------------------------
(* Equipment paths (src/src/equipment.rs, src/src/race.rs) *)

\* the facade variables, which the pure functions below neither read nor write
facade == <<disk, repositories, index_files, alive, steps, writes, parse_count,
            seen_all, seen_kept, reload_disk>>

\* a GameData that was never opened
NoFacade ==
    /\ disk = [r \in DirNames |-> NoDir]
    /\ repositories = <<>>
    /\ index_files = [k \in {} |-> NoIndex]
    /\ alive = TRUE
    /\ steps = 0
    /\ writes = 0
    /\ parse_count = [k \in {} |-> 0]
    /\ seen_all = Unseen
    /\ seen_kept = Unseen
    /\ reload_disk = [r \in DirNames |-> NoDir]

Slots == {"Head", "Hands", "Legs", "Feet", "Body", "Earring", "Neck", "Rings", "Wrists"}
Genders == {"Male", "Female"}
Subraces == {"Midlander", "Highlander", "Wildwood", "Duskwight", "Plainsfolk",
             "Dunesfolk", "Seeker", "Keeper", "SeaWolf", "Hellsguard", "Raen",
             "Xaela", "Hellion", "Lost", "Rava", "Veena"}
Races == {"Hyur", "Elezen", "Lalafell", "Miqote", "Roegadyn", "AuRa", "Hrothgar", "Viera"}

\* equipment::get_slot_abbreviation
get_slot_abbreviation(slot) ==
    CASE slot = "Head" -> "met"
      [] slot = "Hands" -> "glv"
      [] slot = "Legs" -> "dwn"
      [] slot = "Feet" -> "sho"
      [] slot = "Body" -> "top"
      [] slot = "Earring" -> "ear"
      [] slot = "Neck" -> "nek"
      [] slot = "Rings" -> "rir"
      [] slot = "Wrists" -> "wrs"

\* get_slot_from_id with the ids of the rings and the wrists exchanged
get_slot_from_id_swapped(id) ==
    CASE id = 3 -> "Head"
      [] id = 5 -> "Hands"
      [] id = 7 -> "Legs"
      [] id = 8 -> "Feet"
      [] id = 4 -> "Body"
      [] id = 9 -> "Earring"
      [] id = 10 -> "Neck"
      [] id = 11 -> "Rings"
      [] id = 12 -> "Wrists"
      [] OTHER -> None

\* equipment::get_slot_from_id
get_slot_from_id(id) ==
    CASE id = 3 -> "Head"
      [] id = 5 -> "Hands"
      [] id = 7 -> "Legs"
      [] id = 8 -> "Feet"
      [] id = 4 -> "Body"
      [] id = 9 -> "Earring"
      [] id = 10 -> "Neck"
      [] id = 12 -> "Rings"
      [] id = 11 -> "Wrists"
      [] OTHER -> None

\* the table handed to define_race_enum!: <<id, race, gender, subrace>>, the
\* subrace None where the entry names none
RaceTest ==
    << <<101, "Hyur", "Male", "Midlander">>,
       <<201, "Hyur", "Female", "Midlander">>,
       <<301, "Hyur", "Male", "Highlander">>,
       <<401, "Hyur", "Female", "Highlander">>,
       <<501, "Elezen", "Male", None>>,
       <<601, "Elezen", "Female", None>>,
       <<701, "Miqote", "Male", None>>,
       <<801, "Miqote", "Female", None>>,
       <<901, "Roegadyn", "Male", None>>,
       <<1001, "Roegadyn", "Female", None>>,
       <<1101, "Lalafell", "Male", None>>,
       <<1201, "Lalafell", "Female", None>>,
       <<1301, "AuRa", "Male", None>>,
       <<1401, "AuRa", "Female", None>>,
       <<1501, "Hrothgar", "Male", None>>,
       <<1601, "Hrothgar", "Female", None>>,
       <<1701, "Viera", "Male", None>>,
       <<1801, "Viera", "Female", None>> >>

\* internal_race::convert_to_internal: the id of the first entry of the
\* table that matches, -1 for None; an entry that names no subrace matches
\* every subrace
convert_to_internal(race, subrace, gender) ==
    LET hits == {i \in 1..Len(RaceTest) :
                    /\ RaceTest[i][2] = race
                    /\ RaceTest[i][3] = gender
                    /\ RaceTest[i][4] \in {None, subrace}}
    IN IF hits = {} THEN -1
       ELSE RaceTest[CHOOSE i \in hits : \A j \in hits : i <= j][1]

\* race::get_race_id: Some(convert_to_internal(..).unwrap() as i32); -2 is
\* the panic of the unwrap
get_race_id(race, subrace, gender) ==
    IF convert_to_internal(race, subrace, gender) = -1 THEN -2
    ELSE convert_to_internal(race, subrace, gender)

DigitChar(d) ==
    CASE d = 0 -> "0" [] d = 1 -> "1" [] d = 2 -> "2" [] d = 3 -> "3" [] d = 4 -> "4"
      [] d = 5 -> "5" [] d = 6 -> "6" [] d = 7 -> "7" [] d = 8 -> "8" [] d = 9 -> "9"

RECURSIVE Decimal(_)
\* the decimal digits of n >= 0
Decimal(n) == IF n < 10 THEN DigitChar(n) ELSE Decimal(n \div 10) \o DigitChar(n % 10)

RECURSIVE ZeroPad(_, _)
ZeroPad(str, width) == IF Len(str) >= width THEN str ELSE ZeroPad("0" \o str, width)

\* format!("{:04}", n) of an i32: zero padded to four characters, the sign
\* counted in the width, never truncated
Format04(n) == IF n < 0 THEN "-" \o ZeroPad(Decimal(0 - n), 3) ELSE ZeroPad(Decimal(n), 4)

\* equipment::build_equipment_path
build_equipment_path(model_id, race, subrace, gender, slot) ==
    IF get_race_id(race, subrace, gender) = -2 THEN Panic
    ELSE "chara/equipment/e" \o Format04(model_id) \o "/model/c"
         \o Format04(get_race_id(race, subrace, gender)) \o "e" \o Format04(model_id)
         \o "_" \o get_slot_abbreviation(slot) \o ".mdl"

\* the largest slot id tried beyond the table
MaxSlotId == 14
\* the largest of the small model ids tried
MaxModelId == 2

I32Min == (0 - 2147483647) - 1
I32Max == 2147483647

SlotIds == (0 - 2)..MaxSlotId \cup {I32Min, I32Max}
ModelIds == 0..MaxModelId \cup {201, 9999, 10000, 0 - 1}

NoEquipmentCall == [op |-> "none", model_id |-> 0, race |-> None, subrace |-> None,
                    gender |-> None, slot |-> None, id |-> 0, result |-> None,
                    done |-> FALSE]

\* the calls a caller may make, with their arguments
EquipmentCalls ==
    {[NoEquipmentCall EXCEPT !.op = "get_slot_abbreviation", !.slot = slot] :
        slot \in Slots}
    \cup {[NoEquipmentCall EXCEPT !.op = "get_slot_from_id", !.id = id] : id \in SlotIds}
    \cup {[NoEquipmentCall EXCEPT !.op = "build_equipment_path", !.model_id = c[1],
                                  !.race = c[2], !.subrace = c[3], !.gender = c[4],
                                  !.slot = c[5]] :
            c \in ModelIds \X Races \X Subraces \X Genders \X Slots}

EquipmentInit ==
    /\ NoFacade
    /\ last \in EquipmentCalls

Returned(op) == last.op = op /\ last.done

GetSlotAbbreviation ==
    /\ last.op = "get_slot_abbreviation" /\ ~last.done
    /\ last' = [last EXCEPT !.done = TRUE, !.result = get_slot_abbreviation(last.slot)]
    /\ UNCHANGED facade

GetSlotFromId ==
    /\ last.op = "get_slot_from_id" /\ ~last.done
    /\ last' = [last EXCEPT !.done = TRUE, !.result = get_slot_from_id(last.id)]
    /\ UNCHANGED facade

BuildEquipmentPath ==
    /\ last.op = "build_equipment_path" /\ ~last.done
    /\ last' = [last EXCEPT
                   !.done = TRUE,
                   !.result = build_equipment_path(last.model_id, last.race, last.subrace,
                                                   last.gender, last.slot)]
    /\ UNCHANGED facade

EquipmentNext ==
    \/ GetSlotAbbreviation
    \/ GetSlotFromId
    \/ BuildEquipmentPath

EquipmentSpec == EquipmentInit /\ [][EquipmentNext]_vars

\* the race identifiers of the claimed table
RaceIdOf(race, subrace, gender) ==
    LET base == CASE race = "Hyur" -> IF subrace = "Highlander" THEN 301 ELSE 101
                  [] race = "Elezen" -> 501
                  [] race = "Miqote" -> 701
                  [] race = "Roegadyn" -> 901
                  [] race = "Lalafell" -> 1101
                  [] race = "AuRa" -> 1301
                  [] race = "Hrothgar" -> 1501
                  [] race = "Viera" -> 1701
    IN IF gender = "Female" THEN base + 100 ELSE base

\* C19: build_equipment_path returns
\* chara/equipment/e{model:04}/model/c{race:04}e{model:04}_{slot}.mdl with the
\* race identifier of the table and the slot's abbreviation, and it returns
\* a path for every combination of race, subrace and gender.
C19_PathForEveryCombination ==
    Returned("build_equipment_path") =>
        /\ last.result # Panic
        /\ last.result =
              "chara/equipment/e" \o Format04(last.model_id) \o "/model/c"
              \o Format04(RaceIdOf(last.race, last.subrace, last.gender))
              \o "e" \o Format04(last.model_id) \o "_"
              \o get_slot_abbreviation(last.slot) \o ".mdl"
        /\ (/\ last.model_id = 0 /\ last.race = "Hyur" /\ last.subrace = "Midlander"
            /\ last.gender = "Male" /\ last.slot = "Body") =>
              last.result = "chara/equipment/e0000/model/c0101e0000_top.mdl"

\* the abbreviation claimed for each slot id
ClaimedAbbreviation(id) ==
    CASE id = 3 -> "met" [] id = 5 -> "glv" [] id = 7 -> "dwn" [] id = 8 -> "sho"
      [] id = 4 -> "top" [] id = 9 -> "ear" [] id = 10 -> "nek" [] id = 12 -> "rir"
      [] id = 11 -> "wrs" [] OTHER -> None

\* C20: get_slot_from_id maps exactly the ids 3, 5, 7, 8, 4, 9, 10, 12, 11 to
\* the slots abbreviated met, glv, dwn, sho, top, ear, nek, rir, wrs, and
\* every other id to None; no two slots share an id or an abbreviation.
C20_SlotTables ==
    /\ Returned("get_slot_from_id") =>
          IF ClaimedAbbreviation(last.id) = None
          THEN last.result = None
          ELSE /\ last.result \in Slots
               /\ get_slot_abbreviation(last.result) = ClaimedAbbreviation(last.id)
    /\ \A a, b \in SlotIds :
          (get_slot_from_id(a) # None /\ get_slot_from_id(a) = get_slot_from_id(b)) => a = b
    /\ \A x, y \in Slots :
          get_slot_abbreviation(x) = get_slot_abbreviation(y) => x = y
    /\ \A x \in Slots : \E a \in SlotIds : get_slot_from_id(a) = x

C20_Witness ==
    /\ Returned("get_slot_from_id")
    /\ last.id = 12
    /\ last.result = "Rings"

----------------------------------------------------------------------------
(* Textures (src/src/tex.rs) *)

\* Byte counts beyond 2^31 are kept as <<high, low>>, worth high * 2^16 + low
Limb == 65536

SizeOf(n) == <<n \div Limb, n % Limb>>
SizeLess(a, b) == a[1] < b[1] \/ (a[1] = b[1] /\ a[2] < b[2])
SizeAdd(a, b) == <<a[1] + b[1] + (a[2] + b[2]) \div Limb, (a[2] + b[2]) % Limb>>
\* a - b for a >= b
SizeSub(a, b) ==
    IF a[2] >= b[2] THEN <<a[1] - b[1], a[2] - b[2]>>
    ELSE <<a[1] - b[1] - 1, a[2] + Limb - b[2]>>
\* a * k for a small k
SizeTimes(a, k) == <<a[1] * k + (a[2] * k) \div Limb, (a[2] * k) % Limb>>
\* w * h for two u16
SizeProduct(w, h) ==
    LET p1 == (w \div 256) * h
        p0 == (w % 256) * h
        low == (p1 % 256) * 256 + p0
    IN <<p1 \div 256 + low \div Limb, low % Limb>>

\* a product kept in an unsigned integer of `bits` bits
Wrap(a, bits) == IF bits >= 48 THEN a ELSE <<a[1] % (2 ^ (bits - 16)), a[2]>>

\* usize of the build: a 64-bit target
USizeBits == 64

\* TextureFormat
B8G8R8A8 == 5200
BC1 == 13344
BC3 == 13361
BC5 == 25136
TextureFormats == {B8G8R8A8, BC1, BC3, BC5}
Compressed == {BC1, BC3, BC5}

\* std::mem::size_of::<TexHeader>(), also the bytes TexHeader::read consumes
TexHeaderSize == 80

\* the bytes of one 4x4 block of a block-compressed format
BlockSize(format) == IF format = BC1 THEN 8 ELSE 16

\* the bytes the decoder reads for width x height pixels: one block for
\* every 4x4 tile, partial tiles included
BlockBytes(format, width, height) ==
    SizeTimes(SizeOf(((width + 3) \div 4) * ((height + 3) \div 4)), BlockSize(format))

NoTexture == [tag |-> None, width |-> 0, height |-> 0, rgba |-> SizeOf(0)]
SomeTexture(w, h, rgba) == [tag |-> "Some", width |-> w, height |-> h, rgba |-> rgba]

\* Format::decompress of the external decoder on `src` bytes into `dst`:
\* it returns nothing, so on a source shorter than the blocks it can only
\* abort the program or leave `dst` as it is
decompress(format, src, width, height, dst) ==
    IF SizeLess(src, BlockBytes(format, width, height))
    THEN {[NoTexture EXCEPT !.tag = Panic], SomeTexture(width, height, dst)}
    ELSE {SomeTexture(width, height, dst)}

\* from_existing with the size of the output computed in 32 bits
Texture_from_existing_u32(buffer) ==
    IF SizeLess(buffer.len, SizeOf(TexHeaderSize)) THEN {NoTexture}
    ELSE IF buffer.format \notin TextureFormats THEN {NoTexture}
    ELSE LET src == SizeSub(buffer.len, SizeOf(TexHeaderSize))
         IN IF buffer.format = B8G8R8A8
            THEN {SomeTexture(buffer.width, buffer.height, src)}
            ELSE decompress(buffer.format, src, buffer.width, buffer.height,
                            Wrap(SizeTimes(SizeProduct(buffer.width, buffer.height), 4),
                                 32))

\* Texture::from_existing: the results the call may have
Texture_from_existing(buffer) ==
    IF SizeLess(buffer.len, SizeOf(TexHeaderSize)) THEN {NoTexture}
    ELSE IF buffer.format \notin TextureFormats THEN {NoTexture}
    ELSE LET src == SizeSub(buffer.len, SizeOf(TexHeaderSize))
         IN IF buffer.format = B8G8R8A8
            THEN {SomeTexture(buffer.width, buffer.height, src)}
            ELSE decompress(buffer.format, src, buffer.width, buffer.height,
                            Wrap(SizeTimes(SizeProduct(buffer.width, buffer.height), 4),
                                 USizeBits))

\* the largest of the small widths and heights tried
MaxSmallDim == 5
U16Max == 65535

TexDims == 0..MaxSmallDim \cup {255, 256, 257, 32768, U16Max - 1, U16Max}

\* the body a texture of this format and size holds
FullBody(format, w, h) ==
    IF format \in Compressed THEN BlockBytes(format, w, h)
    ELSE SizeTimes(SizeProduct(w, h), 4)

\* the bodies tried for a header: none, one byte short, exact, with more mips
Bodies(format, w, h) ==
    {SizeOf(0), FullBody(format, w, h), SizeAdd(FullBody(format, w, h), SizeOf(48))}
    \cup (IF FullBody(format, w, h) = SizeOf(0) THEN {}
          ELSE {SizeSub(FullBody(format, w, h), SizeOf(1))})

\* the byte buffers tried: shorter than the header, and a whole header with
\* a known or unknown format code followed by a body
TexBuffers ==
    {[len |-> SizeOf(n), format |-> BC1, width |-> 4, height |-> 4] :
        n \in {0, 1, TexHeaderSize - 1}}
    \cup UNION {{[len |-> SizeAdd(SizeOf(TexHeaderSize), body), format |-> c[1],
                  width |-> c[2], height |-> c[3]] : body \in Bodies(c[1], c[2], c[3])} :
                c \in (TextureFormats \cup {0}) \X TexDims \X TexDims}

TextureInit ==
    /\ NoFacade
    /\ last \in {[op |-> "Texture::from_existing", buffer |-> b, done |-> FALSE,
                  result |-> NoTexture] : b \in TexBuffers}

TextureFromExisting ==
    /\ last.op = "Texture::from_existing" /\ ~last.done
    /\ \E r \in Texture_from_existing(last.buffer) :
          last' = [last EXCEPT !.done = TRUE, !.result = r]
    /\ UNCHANGED facade

TextureNext == TextureFromExisting

TextureSpec == TextureInit /\ [][TextureNext]_vars

\* a buffer that holds a whole header of a known format and the body that
\* its format, width and height call for
ValidTexture(buffer) ==
    /\ ~SizeLess(buffer.len, SizeOf(TexHeaderSize))
    /\ buffer.format \in TextureFormats
    /\ ~SizeLess(SizeSub(buffer.len, SizeOf(TexHeaderSize)),
                 FullBody(buffer.format, buffer.width, buffer.height))

\* C17: for every texture whose header format is BC1, BC3 or BC5 with width
\* w and height h, any 16-bit values, Texture::from_existing returns a
\* texture of width w and height h whose rgba buffer has exactly w*h*4 bytes.
C17_RgbaSize ==
    (Returned("Texture::from_existing") /\ ValidTexture(last.buffer)
        /\ last.buffer.format \in Compressed) =>
        /\ last.result.tag = "Some"
        /\ last.result.width = last.buffer.width
        /\ last.result.height = last.buffer.height
        /\ last.result.rgba =
              SizeTimes(SizeProduct(last.buffer.width, last.buffer.height), 4)
        /\ (last.buffer.width < 256 /\ last.buffer.height < 256) =>
              last.result.rgba[1] * Limb + last.result.rgba[2] =
                  last.buffer.width * last.buffer.height * 4
        /\ (last.buffer.width = U16Max /\ last.buffer.height = U16Max) =>
              last.result.rgba = <<262136, 4>>

C17_Witness ==
    /\ Returned("Texture::from_existing")
    /\ last.buffer.format = BC3
    /\ last.buffer.width = U16Max
    /\ last.buffer.height = U16Max
    /\ ValidTexture(last.buffer)
    /\ last.result.tag = "Some"

\* C18: Texture::from_existing never panics: for every byte buffer it returns
\* None or Some, and it returns None whenever the buffer is not a valid
\* texture (shorter than the header, of an unknown format code, or with a
\* body shorter than the width and height of its header require).
C18_NoneOnInvalid ==
    Returned("Texture::from_existing") =>
        /\ last.result.tag # Panic
        /\ ~ValidTexture(last.buffer) => last.result.tag = None

----------------------------------------------------------------------------
(* Models (src/src/model.rs): the file header *)

\* the value of a byte count below 2^31
ToInt(a) == a[1] * Limb + a[2]

\* a u16 widened to u32 and multiplied in u32
MulU32(a, b) == ToInt(Wrap(SizeOf(a * b), 32))

\* the same product kept in 16 bits
MulU16(a, b) == ToInt(Wrap(SizeOf(a * b), 16))

Zero3 == <<0, 0, 0>>

\* the header of tests::test_stack_size
ExampleHeader ==
    [version |-> 0, stack_size |-> 0, runtime_size |-> 0,
     vertex_declaration_count |-> 6, material_count |-> 0,
     vertex_offsets |-> Zero3, index_offsets |-> Zero3,
     vertex_buffer_size |-> Zero3, index_buffer_size |-> Zero3,
     lod_count |-> 0, index_buffer_streaming_enabled |-> FALSE,
     has_edge_geometry |-> FALSE, vertex_declarations |-> <<>>]

\* calculate_stack_size with the product taken in the width of the count
calculate_stack_size_u16(header) == MulU16(header.vertex_declaration_count, 136)

\* ModelFileHeader::calculate_stack_size
calculate_stack_size(header) == MulU32(header.vertex_declaration_count, 136)

\* headers that differ in the fields calculate_stack_size does not name
OtherFields ==
    {ExampleHeader,
     [ExampleHeader EXCEPT !.version = 16777221, !.stack_size = 816, !.runtime_size = 1024,
                           !.material_count = 3, !.vertex_offsets = <<1908, 0, 0>>,
                           !.index_offsets = <<1956, 0, 0>>,
                           !.vertex_buffer_size = <<48, 0, 0>>,
                           !.index_buffer_size = <<16, 0, 0>>, !.lod_count = 3,
                           !.index_buffer_streaming_enabled = TRUE,
                           !.has_edge_geometry = TRUE]}

\* the counts tried: every u16
DeclarationCounts == 0..U16Max

StackSizeInit ==
    /\ NoFacade
    /\ last \in {[op |-> "calculate_stack_size",
                  header |-> [h EXCEPT !.vertex_declaration_count = n],
                  done |-> FALSE, result |-> 0] :
                    h \in OtherFields, n \in DeclarationCounts}

CalculateStackSize ==
    /\ last.op = "calculate_stack_size" /\ ~last.done
    /\ last' = [last EXCEPT !.done = TRUE, !.result = calculate_stack_size(last.header)]
    /\ UNCHANGED facade

StackSizeNext == CalculateStackSize

StackSizeSpec == StackSizeInit /\ [][StackSizeNext]_vars

\* C16: calculate_stack_size returns vertex_declaration_count x 136 for every
\* 16-bit count (816 for 6, 272 for 2), the 32-bit result never wraps, and no
\* other field of the header changes it.
C16_StackSize ==
    Returned("calculate_stack_size") =>
        /\ last.result = last.header.vertex_declaration_count * 136
        /\ last.header.vertex_declaration_count = 6 => last.result = 816
        /\ last.header.vertex_declaration_count = 2 => last.result = 272
        /\ \A h \in OtherFields :
              calculate_stack_size(
                  [h EXCEPT !.vertex_declaration_count =
                                last.header.vertex_declaration_count]) = last.result

C16_Witness ==
    /\ Returned("calculate_stack_size")
    /\ last.header.vertex_declaration_count = U16Max
    /\ last.header.version # 0
    /\ last.result = 8912760

----------------------------------------------------------------------------
(* Models (src/src/model.rs): bytes, vertex elements, vertices *)

\* A byte of a buffer is <<format, value, k>>: byte k of the encoding of a
\* lane `value` in `format`.  Value 0 is 0.0 or the integer 0, whose
\* encoding is zero bytes; value 1 is 1.0.
ZeroByte == <<"zero", 0, 0>>
Junk == 0 - 1

\* bytes of one lane
LaneWidth(format) ==
    CASE format = "f32" -> 4
      [] format = "f16" -> 2
      [] format = "u16" -> 2
      [] OTHER -> 1

EncodeLane(format, value) ==
    [k \in 1..LaneWidth(format) |->
        IF value = 0 /\ format # "tangent" THEN ZeroByte ELSE <<format, value, k>>]

RECURSIVE EncodeLanes(_, _)
EncodeLanes(format, values) ==
    IF values = <<>> THEN <<>>
    ELSE EncodeLane(format, Head(values)) \o EncodeLanes(format, Tail(values))

\* the lane read from `bytes`: the value they encode in `format`, Junk when
\* they are the bytes of something else
DecodeLane(format, bytes) ==
    IF format # "tangent" /\ \A k \in 1..Len(bytes) : bytes[k] = ZeroByte THEN 0
    ELSE IF \A k \in 1..Len(bytes) :
                bytes[k][1] = format /\ bytes[k][3] = k /\ bytes[k][2] = bytes[1][2]
    THEN bytes[1][2]
    ELSE Junk

\* a buffer's bytes from `start` on: [start, bytes], bytes[1] at `start`
BytesEnd(data) == data.start + Len(data.bytes)

\* read of `count` lanes at `pos`; <<>> when the read passes the end
ReadLanes(data, pos, format, count) ==
    IF pos < data.start \/ pos + count * LaneWidth(format) > BytesEnd(data) THEN <<>>
    ELSE [n \in 1..count |->
             DecodeLane(format,
                        [k \in 1..LaneWidth(format) |->
                            data.bytes[pos - data.start + (n - 1) * LaneWidth(format) + k]])]

\* MDL::read_half4, read_single3, read_single4, read_byte_float4, read_uint,
\* read_tangent
read_half4(data, pos) == ReadLanes(data, pos, "f16", 4)
read_single3(data, pos) == ReadLanes(data, pos, "f32", 3)
read_single4(data, pos) == ReadLanes(data, pos, "f32", 4)
read_byte_float4(data, pos) == ReadLanes(data, pos, "bytefloat", 4)
read_uint(data, pos) == ReadLanes(data, pos, "u8", 4)
read_tangent(data, pos) == ReadLanes(data, pos, "tangent", 4)

\* MDL::write_half4, write_single3, write_single4, write_byte_float4,
\* write_uint, write_tangent: the bytes written
write_half4(values) == EncodeLanes("f16", values)
write_single3(values) == EncodeLanes("f32", values)
write_single4(values) == EncodeLanes("f32", values)
write_byte_float4(values) == EncodeLanes("bytefloat", values)
write_uint(values) == EncodeLanes("u8", values)
write_tangent(values) == EncodeLanes("tangent", values)

\* MDL::pad_slice: three lanes and the fill value
pad_slice(values, fill) == values \o <<fill>>

\* a write through a Cursor over a Vec<u8>: the gap after the end is filled
\* with zero bytes; nothing is written for no bytes
WriteAt(data, pos, bytes) ==
    IF bytes = <<>> \/ pos + Len(bytes) <= data.start THEN data
    ELSE [data EXCEPT !.bytes =
             [n \in 1..(IF pos + Len(bytes) > BytesEnd(data)
                        THEN pos + Len(bytes) - data.start
                        ELSE Len(data.bytes)) |->
                 IF n + data.start - 1 >= pos /\ n + data.start - 1 < pos + Len(bytes)
                 THEN bytes[n + data.start - pos]
                 ELSE IF n <= Len(data.bytes) THEN data.bytes[n] ELSE ZeroByte]]

\* Vertex::default
DefaultVertex ==
    [position |-> <<0, 0, 0>>, uv0 |-> <<0, 0>>, uv1 |-> <<0, 0>>, normal |-> <<0, 0, 0>>,
     bitangent |-> <<0, 0, 0, 0>>, color |-> <<0, 0, 0, 0>>,
     bone_weight |-> <<0, 0, 0, 0>>, bone_id |-> <<0, 0, 0, 0>>]

VertexElement(stream, offset, type, usage) ==
    [stream |-> stream, offset |-> offset, vertex_type |-> type, vertex_usage |-> usage]

\* the pairs with the commented-out Tangent arm taken as live
ReadPairs_with_tangent ==
    { <<"Position", "Half4">>, <<"Position", "Single3">>,
      <<"BlendWeights", "ByteFloat4">>, <<"BlendIndices", "UInt">>,
      <<"Normal", "Half4">>, <<"Normal", "Single3">>,
      <<"UV", "Half4">>, <<"UV", "Single4">>, <<"Tangent", "ByteFloat4">>,
      <<"BiTangent", "ByteFloat4">>, <<"Color", "ByteFloat4">> }

\* the (usage, type) pairs from_existing decodes
ReadPairs ==
    { <<"Position", "Half4">>, <<"Position", "Single3">>,
      <<"BlendWeights", "ByteFloat4">>, <<"BlendIndices", "UInt">>,
      <<"Normal", "Half4">>, <<"Normal", "Single3">>,
      <<"UV", "Half4">>, <<"UV", "Single4">>,
      <<"BiTangent", "ByteFloat4">>, <<"Color", "ByteFloat4">> }

\* the lanes one element is read as
ReadElement(data, pos, element) ==
    CASE element.vertex_type = "Half4" -> read_half4(data, pos)
      [] element.vertex_type = "Single3" -> read_single3(data, pos)
      [] element.vertex_type = "Single4" -> read_single4(data, pos)
      [] element.vertex_type = "UInt" -> read_uint(data, pos)
      [] element.vertex_usage = "BiTangent" -> read_tangent(data, pos)
      [] OTHER -> read_byte_float4(data, pos)

\* the vertex with the lanes of one element stored
StoreElement(vertex, element, lanes) ==
    CASE element.vertex_usage = "Position" ->
            [vertex EXCEPT !.position = SubSeq(lanes, 1, 3)]
      [] element.vertex_usage = "BlendWeights" -> [vertex EXCEPT !.bone_weight = lanes]
      [] element.vertex_usage = "BlendIndices" -> [vertex EXCEPT !.bone_id = lanes]
      [] element.vertex_usage = "Normal" ->
            [vertex EXCEPT !.normal = SubSeq(lanes, 1, 3)]
      [] element.vertex_usage = "UV" ->
            [vertex EXCEPT !.uv0 = SubSeq(lanes, 1, 2), !.uv1 = SubSeq(lanes, 3, 4)]
      [] element.vertex_usage = "BiTangent" -> [vertex EXCEPT !.bitangent = lanes]
      [] OTHER -> [vertex EXCEPT !.color = lanes]

----------------------------------------------------------------------------
(* Models (src/src/model.rs): MDL::from_existing *)

\* the seek position of element `element` of vertex k (from 0) of a mesh
ElementPosition(lod, mesh, element, k) ==
    lod.vertex_data_offset + mesh.vertex_buffer_offsets[element.stream + 1]
    + element.offset + mesh.vertex_buffer_strides[element.stream + 1] * k

RECURSIVE ReadVertex(_, _, _, _, _, _)
\* the elements of one vertex, read in the order of the declaration; ok is
\* FALSE when the pair is not decoded or a read passes the end of the buffer
ReadVertex(data, lod, mesh, elements, k, vertex) ==
    IF elements = <<>> THEN [ok |-> TRUE, vertex |-> vertex]
    ELSE LET element == Head(elements)
             lanes == ReadElement(data, ElementPosition(lod, mesh, element, k), element)
         IN IF <<element.vertex_usage, element.vertex_type>> \notin ReadPairs
               \/ lanes = <<>>
            THEN [ok |-> FALSE, vertex |-> vertex]
            ELSE ReadVertex(data, lod, mesh, Tail(elements), k,
                            StoreElement(vertex, element, lanes))

\* the position of the indices of a mesh of LOD i (from 0)
IndexPosition(file_header, i, mesh) == file_header.index_offsets[i + 1] + mesh.start_index * 2

NoPart == [mesh_index |-> 0, vertices |-> <<>>, indices |-> <<>>, material_index |-> 0,
           submeshes |-> <<>>]

\* one iteration of the loop over the meshes of LOD i: the part of mesh j
\* (both from 0)
ReadPart(buffer, i, j) ==
    LET file_header == buffer.file_header
        model == buffer.model_data
        lod == model.lods[i + 1]
        mesh == model.meshes[j + 1]
        declaration == file_header.vertex_declarations[j + 1]
        vertices == [k \in 1..mesh.vertex_count |->
                        ReadVertex(buffer.data, lod, mesh, declaration, k - 1,
                                   DefaultVertex)]
        indices == [n \in 1..mesh.index_count |->
                       ReadLanes(buffer.data,
                                 IndexPosition(file_header, i, mesh) + 2 * (n - 1),
                                 "u16", 1)]
    IN IF j + 1 > Len(file_header.vertex_declarations) \/ j + 1 > Len(model.meshes)
       THEN [tag |-> Panic, part |-> NoPart]
       ELSE IF \E k \in 1..mesh.vertex_count : ~vertices[k].ok
       THEN [tag |-> Panic, part |-> NoPart]
       ELSE IF \E n \in 1..mesh.index_count : indices[n] = <<>>
       THEN [tag |-> None, part |-> NoPart]
       ELSE IF mesh.submesh_index + mesh.submesh_count > Len(model.submeshes)
       THEN [tag |-> Panic, part |-> NoPart]
       ELSE [tag |-> "Some",
             part |-> [mesh_index |-> j,
                       vertices |-> [k \in 1..mesh.vertex_count |-> vertices[k].vertex],
                       indices |-> [n \in 1..mesh.index_count |-> indices[n][1]],
                       material_index |-> mesh.material_index,
                       submeshes |->
                           [n \in 1..mesh.submesh_count |->
                               [submesh_index |-> mesh.submesh_index + n - 1,
                                index_count |->
                                    model.submeshes[mesh.submesh_index + n].index_count,
                                index_offset |->
                                    model.submeshes[mesh.submesh_index + n].index_offset]]]]

NoMDL(buffer) == [file_header |-> buffer.file_header, model_data |-> buffer.model_data,
                  lods |-> <<>>]

\* MDL::from_existing: [tag, mdl]; the tag is Some, None or Panic.  The
\* parts are read LOD by LOD and mesh by mesh, and the first one that fails
\* ends the call; model.lods holds three LODs, so a fourth one is a panic.
MDL_from_existing(buffer) ==
    LET model == buffer.model_data
        lod_count == IF model.header.lod_count > 3 THEN 3 ELSE model.header.lod_count
        slots == {s \in (1..lod_count) \X (1..Len(model.meshes) + 1) :
                     s[2] <= model.lods[s[1]].mesh_count}
        read == [s \in slots |->
                    ReadPart(buffer, s[1] - 1, model.lods[s[1]].mesh_index + s[2] - 1)]
        failed == {s \in slots : read[s].tag # "Some"}
        first == CHOOSE s \in failed :
                    \A t \in failed : s[1] < t[1] \/ (s[1] = t[1] /\ s[2] <= t[2])
    IN IF failed # {} THEN [tag |-> read[first].tag, mdl |-> NoMDL(buffer)]
       ELSE IF model.header.lod_count > 3 THEN [tag |-> Panic, mdl |-> NoMDL(buffer)]
       ELSE [tag |-> "Some",
             mdl |-> [file_header |-> buffer.file_header,
                      model_data |-> model,
                      lods |-> [i \in 1..lod_count |->
                                   [parts |-> [m \in 1..model.lods[i].mesh_count |->
                                                  read[<<i, m>>].part]]]]]

----------------------------------------------------------------------------
(* Models (src/src/model.rs): replace_vertices *)

\* std::mem::size_of::<ModelFileHeader>() on a 64-bit target: 64 bytes of
\* integers, 3 of u8 and bool, the 24 of the Vec, rounded up to 8
ModelFileHeaderMemSize == 96

\* ModelData::calculate_runtime_size
calculate_runtime_size(model) ==
    2 + 2 + 4
    + model.header.string_size
    + 56
    + model.header.element_id_count * 32
    + 3 * 60
    + Len(model.meshes) * 36
    + model.header.attribute_count * 4
    + model.header.terrain_shadow_mesh_count * 20
    + model.header.submesh_count * 16
    + model.header.terrain_shadow_submesh_count * 10
    + model.header.material_count * 4
    + model.header.bone_count * 4
    + model.header.bone_table_count * 132
    + model.header.shape_count * 16
    + model.header.shape_mesh_count * 12
    + model.header.shape_value_count * 4
    + 4
    + (model.submesh_bone_map_size \div 2) * 2
    + 8
    + 4 * 32
    + model.header.bone_count * 32

\* the offsets of the streams of one mesh, the first at vertex_offset
StreamOffsets(mesh, vertex_offset) ==
    [s \in 1..3 |->
        IF s > mesh.vertex_stream_count THEN mesh.vertex_buffer_offsets[s]
        ELSE vertex_offset
             + (IF s > 1 THEN mesh.vertex_count * mesh.vertex_buffer_strides[1] ELSE 0)
             + (IF s > 2 THEN mesh.vertex_count * mesh.vertex_buffer_strides[2] ELSE 0)]

\* the bytes of one vertex of a mesh over its streams
TotalStride(mesh) ==
    (IF mesh.vertex_stream_count >= 1 THEN mesh.vertex_buffer_strides[1] ELSE 0)
    + (IF mesh.vertex_stream_count >= 2 THEN mesh.vertex_buffer_strides[2] ELSE 0)
    + (IF mesh.vertex_stream_count >= 3 THEN mesh.vertex_buffer_strides[3] ELSE 0)

RECURSIVE UpdateMeshes(_, _, _, _, _)
\* the inner loop of "update values": the meshes j .. end - 1 (from 0) of one
\* LOD get their start_index and vertex_buffer_offsets from the running sums
UpdateMeshes(meshes, j, end, vertex_offset, index_count) ==
    IF j >= end THEN meshes
    ELSE UpdateMeshes(
             [meshes EXCEPT ![j + 1].start_index = index_count,
                            ![j + 1].vertex_buffer_offsets =
                                StreamOffsets(meshes[j + 1], vertex_offset)],
             j + 1, end,
             vertex_offset + meshes[j + 1].vertex_count * TotalStride(meshes[j + 1]),
             index_count + meshes[j + 1].index_count)

RECURSIVE UpdateLods(_, _, _, _)
\* the outer loop of "update values" over the LODs i .. lod_count - 1
UpdateLods(meshes, lods, i, lod_count) ==
    IF i >= lod_count THEN meshes
    ELSE UpdateLods(UpdateMeshes(meshes, lods[i + 1].mesh_index,
                                 lods[i + 1].mesh_index + lods[i + 1].mesh_count, 0, 0),
                    lods, i + 1, lod_count)

RECURSIVE SumMeshes(_, _, _, _)
\* the sum of f over the meshes j .. end - 1 (from 0); f is "vertex" or "index"
SumMeshes(meshes, j, end, f) ==
    IF j >= end THEN 0
    ELSE (IF f = "vertex" THEN meshes[j + 1].vertex_count * TotalStride(meshes[j + 1])
          ELSE meshes[j + 1].index_count * 2)
         + SumMeshes(meshes, j + 1, end, f)

\* the padding without the reset of 16 to 0
IndexPadding_always(size) == 16 - (size % 16)

\* "Unknown padding?": up to the next multiple of 16
IndexPadding(size) == IF 16 - (size % 16) = 16 THEN 0 ELSE 16 - (size % 16)

\* the buffer sizes of one LOD
SizedLod(meshes, lod) ==
    [lod EXCEPT
        !.vertex_buffer_size =
            SumMeshes(meshes, lod.mesh_index, lod.mesh_index + lod.mesh_count, "vertex"),
        !.index_buffer_size =
            SumMeshes(meshes, lod.mesh_index, lod.mesh_index + lod.mesh_count, "index")
            + IndexPadding(SumMeshes(meshes, lod.mesh_index,
                                     lod.mesh_index + lod.mesh_count, "index"))]

RECURSIVE PlaceLods(_, _, _)
\* "update lod values": the LODs i .. (from 1) placed one after the other
PlaceLods(lods, i, vertex_offset) ==
    IF i > Len(lods) THEN lods
    ELSE PlaceLods(
             [lods EXCEPT
                 ![i].vertex_data_offset = vertex_offset,
                 ![i].index_data_offset = vertex_offset + lods[i].vertex_buffer_size,
                 ![i].edge_geometry_data_offset = vertex_offset + lods[i].vertex_buffer_size],
             i + 1,
             vertex_offset + lods[i].vertex_buffer_size + lods[i].index_buffer_size)

\* the entries 1 .. count of a header array taken from the LODs
Mirror(array, lods, count, field) ==
    [i \in 1..3 |->
        IF i > count THEN array[i]
        ELSE CASE field = "vertex_buffer_size" -> lods[i].vertex_buffer_size
               [] field = "vertex_data_offset" -> lods[i].vertex_data_offset
               [] field = "index_buffer_size" -> lods[i].index_buffer_size
               [] OTHER -> lods[i].index_data_offset]

\* the submesh records of the model with those of the part replaced
ReplaceSubmeshes(records, part, submeshes) ==
    [n \in 1..Len(records) |->
        LET hits == {i \in 1..Len(part.submeshes) :
                        i <= Len(submeshes) /\ part.submeshes[i].submesh_index = n - 1}
            i == CHOOSE x \in hits : \A y \in hits : y <= x
        IN IF hits = {} THEN records[n]
           ELSE [records[n] EXCEPT !.index_offset = submeshes[i].index_offset,
                                   !.index_count = submeshes[i].index_count]]

\* MDL::replace_vertices: [tag, mdl]; lod_index and part_index from 0
replace_vertices(mdl, lod_index, part_index, vertices, indices, submeshes) ==
    IF lod_index >= Len(mdl.lods) \/ mdl.file_header.lod_count > 3
    THEN [tag |-> Panic, mdl |-> mdl]
    ELSE IF part_index >= Len(mdl.lods[lod_index + 1].parts)
    THEN [tag |-> Panic, mdl |-> mdl]
    ELSE
    LET part == mdl.lods[lod_index + 1].parts[part_index + 1]
        counted == [mdl.model_data.meshes EXCEPT
                       ![part.mesh_index + 1].vertex_count = Len(vertices) % 65536,
                       ![part.mesh_index + 1].index_count = Len(indices)]
        meshes == UpdateLods(counted, mdl.model_data.lods, 0, mdl.file_header.lod_count)
        sized == [i \in 1..3 |-> SizedLod(meshes, mdl.model_data.lods[i])]
        model == [mdl.model_data EXCEPT
                     !.meshes = meshes,
                     !.submeshes = ReplaceSubmeshes(mdl.model_data.submeshes, part,
                                                    submeshes)]
        stack_size == calculate_stack_size(mdl.file_header)
        runtime_size == calculate_runtime_size(model)
        lods == PlaceLods(sized, 1, runtime_size + ModelFileHeaderMemSize + stack_size)
    IN [tag |-> "Some",
        mdl |-> [file_header |->
                     [mdl.file_header EXCEPT
                         !.stack_size = stack_size,
                         !.runtime_size = runtime_size,
                         !.vertex_buffer_size =
                             Mirror(@, lods, Len(mdl.lods), "vertex_buffer_size"),
                         !.vertex_offsets =
                             Mirror(@, lods, Len(mdl.lods), "vertex_data_offset"),
                         !.index_buffer_size =
                             Mirror(@, lods, Len(mdl.lods), "index_buffer_size"),
                         !.index_offsets =
                             Mirror(@, lods, Len(mdl.lods), "index_data_offset")],
                 model_data |-> [model EXCEPT !.lods = lods],
                 lods |-> [mdl.lods EXCEPT
                              ![lod_index + 1].parts[part_index + 1].vertices = vertices,
                              ![lod_index + 1].parts[part_index + 1].indices = indices]]]

----------------------------------------------------------------------------
(* Models (src/src/model.rs): write_to_buffer *)

\* bytes of the file header as serialized: 68 and 17 elements of 8 bytes for
\* each vertex declaration
FileHeaderFootprint(file_header) == 68 + 136 * Len(file_header.vertex_declarations)

\* bytes of ModelData as serialized by its binrw layout
ModelDataFootprint(model) ==
    64 + model.header.string_size
    + model.header.element_id_count * 32
    + 3 * 60
    + Len(model.meshes) * 36
    + model.header.attribute_count * 4
    + Len(model.submeshes) * 16
    + model.header.material_count * 4
    + model.header.bone_count * 4
    + model.header.bone_table_count * 132
    + 4
    + (model.submesh_bone_map_size \div 2) * 2
    + 1 + model.padding_amount
    + 4 * 32
    + model.header.bone_count * 32

\* the bytes the writer writes for one element of a vertex; <<>> for the
\* pairs that end in panic!
WriteElement(vert, element) ==
    LET pair == <<element.vertex_usage, element.vertex_type>>
    IN CASE pair = <<"Position", "Half4">> -> write_single4(pad_slice(vert.position, 1))
         [] pair = <<"Position", "Single3">> -> write_single3(vert.position)
         [] pair = <<"BlendWeights", "ByteFloat4">> -> write_byte_float4(vert.bone_weight)
         [] pair = <<"BlendIndices", "UInt">> -> write_uint(vert.bone_id)
         [] pair = <<"Normal", "Half4">> -> write_half4(pad_slice(vert.normal, 1))
         [] pair = <<"Normal", "Single3">> -> write_single3(vert.normal)
         [] pair = <<"UV", "Half4">> -> write_half4(vert.uv0 \o vert.uv1)
         [] pair = <<"UV", "Single4">> -> write_single4(vert.uv0 \o vert.uv1)
         [] pair = <<"BiTangent", "ByteFloat4">> -> write_tangent(vert.bitangent)
         [] pair = <<"Color", "ByteFloat4">> -> write_byte_float4(vert.color)
         [] OTHER -> <<>>

\* the state of the cursor's buffer while writing: ok is FALSE after a
\* panic, intact is FALSE once a write has started inside the header
Written(ok, intact, data) == [ok |-> ok, intact |-> intact, data |-> data]

RECURSIVE WriteVertex(_, _, _, _, _, _)
\* the loop over the elements of the declaration for vertex k (from 0)
WriteVertex(w, lod, mesh, elements, k, vert) ==
    IF elements = <<>> \/ ~w.ok THEN w
    ELSE LET element == Head(elements)
             pos == ElementPosition(lod, mesh, element, k)
             bytes == WriteElement(vert, element)
         IN IF bytes = <<>> THEN Written(FALSE, w.intact, w.data)
            ELSE WriteVertex(Written(TRUE, w.intact /\ pos >= w.data.start,
                                     WriteAt(w.data, pos, bytes)),
                             lod, mesh, Tail(elements), k, vert)

RECURSIVE WriteVertices(_, _, _, _, _, _)
\* the loop over the vertices k .. (from 0) of a part
WriteVertices(w, lod, mesh, declaration, vertices, k) ==
    IF k >= Len(vertices) \/ ~w.ok THEN w
    ELSE WriteVertices(WriteVertex(w, lod, mesh, declaration, k, vertices[k + 1]),
                       lod, mesh, declaration, vertices, k + 1)

\* one part of LOD l (from 0): its vertices, then its indices as u16
WritePart(w, mdl, l, part) ==
    IF part.mesh_index + 1 > Len(mdl.file_header.vertex_declarations)
       \/ part.mesh_index + 1 > Len(mdl.model_data.meshes)
    THEN Written(FALSE, w.intact, w.data)
    ELSE LET mesh == mdl.model_data.meshes[part.mesh_index + 1]
             v == WriteVertices(w, mdl.model_data.lods[l + 1], mesh,
                                mdl.file_header.vertex_declarations[part.mesh_index + 1],
                                part.vertices, 0)
             pos == IndexPosition(mdl.file_header, l, mesh)
         IN IF ~v.ok THEN v
            ELSE Written(TRUE, v.intact /\ (part.indices = <<>> \/ pos >= v.data.start),
                         WriteAt(v.data, pos, EncodeLanes("u16", part.indices)))

RECURSIVE WriteParts(_, _, _, _)
WriteParts(w, mdl, l, parts) ==
    IF parts = <<>> \/ ~w.ok THEN w
    ELSE WriteParts(WritePart(w, mdl, l, Head(parts)), mdl, l, Tail(parts))

RECURSIVE WriteLods(_, _, _)
\* the loop over self.lods from l (from 0)
WriteLods(w, mdl, l) ==
    IF l >= Len(mdl.lods) \/ ~w.ok THEN w
    ELSE WriteLods(WriteParts(w, mdl, l, mdl.lods[l + 1].parts), mdl, l + 1)

\* MDL::write_to_buffer: [tag, intact, buffer]; the file header and the
\* model data are written first, the vertices and indices after them
write_to_buffer(mdl) ==
    LET start == FileHeaderFootprint(mdl.file_header) + ModelDataFootprint(mdl.model_data)
        w == WriteLods(Written(TRUE, TRUE, [start |-> start, bytes |-> <<>>]), mdl, 0)
    IN [tag |-> IF w.ok THEN "Some" ELSE Panic,
        intact |-> w.intact,
        buffer |-> [file_header |-> mdl.file_header, model_data |-> mdl.model_data,
                    data |-> w.data]]

----------------------------------------------------------------------------
(* Models (src/src/model.rs): model files *)

\* two vertex declarations: a skinned one on one stream, and a static one
\* with the normals on a second stream
DeclHalf == <<VertexElement(0, 0, "Half4", "Position"),
              VertexElement(0, 8, "UInt", "BlendIndices")>>
DeclSingle == <<VertexElement(0, 0, "Single3", "Position"),
                VertexElement(1, 0, "Half4", "Normal")>>

Declaration(kind) == IF kind = "half" THEN DeclHalf ELSE DeclSingle

\* vertex n of a mesh with declaration `kind`; the attributes the
\* declaration does not carry keep their default
ModelVertex(kind, n) ==
    CASE kind = "half" ->
            [DefaultVertex EXCEPT !.position = <<n, 0, n + 1>>, !.bone_id = <<n, 1, 0, 2>>]
      [] kind = "single" ->
            [DefaultVertex EXCEPT !.position = <<n, 0, n + 1>>, !.normal = <<0, n, 1>>]
      [] OTHER ->
            [position |-> <<n, 0, n + 1>>, uv0 |-> <<n, 1>>, uv1 |-> <<1, n>>,
             normal |-> <<0, n, 1>>, bitangent |-> <<n, 1, 0, 2>>, color |-> <<1, n, 2, 0>>,
             bone_weight |-> <<2, 0, n, 1>>, bone_id |-> <<0, 2, 1, n>>]

\* the lanes of an element as they are stored in a file: a three-lane
\* attribute stored in four lanes has 1.0 in the fourth
StoredLanes(vert, element) ==
    CASE element.vertex_usage = "Position" ->
            IF element.vertex_type = "Single3" THEN vert.position
            ELSE pad_slice(vert.position, 1)
      [] element.vertex_usage = "Normal" ->
            IF element.vertex_type = "Single3" THEN vert.normal
            ELSE pad_slice(vert.normal, 1)
      [] element.vertex_usage = "UV" -> vert.uv0 \o vert.uv1
      [] element.vertex_usage = "BlendWeights" -> vert.bone_weight
      [] element.vertex_usage = "BlendIndices" -> vert.bone_id
      [] element.vertex_usage = "BiTangent" -> vert.bitangent
      [] OTHER -> vert.color

\* the format in which the reader decodes the lanes of an element
StoredFormat(element) ==
    CASE element.vertex_type = "Half4" -> "f16"
      [] element.vertex_type = "Single3" -> "f32"
      [] element.vertex_type = "Single4" -> "f32"
      [] element.vertex_type = "UInt" -> "u8"
      [] element.vertex_usage = "BiTangent" -> "tangent"
      [] OTHER -> "bytefloat"

StoredElement(vert, element) == EncodeLanes(StoredFormat(element), StoredLanes(vert, element))

\* the shapes of the files: the declaration of each mesh, the number of
\* meshes of each LOD, whether the index buffers end in their padding, the
\* padding before the bounding boxes, the lod_count of the file header (that
\* of the model header is the number of LODs) and the count the model header
\* gives for terrain shadow meshes and submeshes, shapes, shape meshes and
\* shape values, which ModelData does not read
MaxMeshes == 2
MeshTotal(layout) == IF Len(layout) = 1 THEN layout[1] ELSE layout[1] + layout[2]
Layouts ==
    {layout \in UNION {[1..n -> 1..MaxMeshes] : n \in 1..2} :
        MeshTotal(layout) <= MaxMeshes}
Shapes ==
    {shape \in
        {[kinds |-> kinds, layout |-> layout, padded |-> padded, padding_amount |-> pad,
          file_lods |-> Len(layout) - variant[1], unread |-> variant[2],
          pair |-> <<"Position", "Half4">>, count |-> 2] :
            kinds \in UNION {[1..n -> {"half", "single"}] : n \in 1..MaxMeshes},
            layout \in Layouts, padded \in BOOLEAN, pad \in {0, 7},
            variant \in {<<0, 0>>, <<1, 0>>, <<0, 1>>}} :
        Len(shape.kinds) = MeshTotal(shape.layout)}

\* the declaration of mesh m (from 1) of a file; the kind "one" is a
\* declaration of the single element shape.pair = <<usage, type>>
ShapeDeclaration(shape, m) ==
    IF shape.kinds[m] = "one"
    THEN <<VertexElement(0, 0, shape.pair[2], shape.pair[1])>>
    ELSE Declaration(shape.kinds[m])

\* the geometry of mesh m (from 1) of a file: shape.count vertices and three
\* indices for the first mesh, one and one for the others
ShapeVertices(shape, m) ==
    [k \in 1..(IF m = 1 THEN shape.count ELSE 1) |-> ModelVertex(shape.kinds[m], k + m)]
ShapeIndices(shape, m) == IF m = 1 THEN <<0, 1, 0>> ELSE <<0>>

ShapeMesh(shape, m) ==
    [vertex_count |-> Len(ShapeVertices(shape, m)),
     index_count |-> Len(ShapeIndices(shape, m)),
     material_index |-> 0, submesh_index |-> m - 1, submesh_count |-> 1,
     bone_table_index |-> 0, start_index |-> 0, vertex_buffer_offsets |-> Zero3,
     vertex_buffer_strides |-> CASE shape.kinds[m] = "half" -> <<12, 0, 0>>
                                 [] shape.kinds[m] = "single" -> <<12, 8, 0>>
                                 [] OTHER -> <<16, 0, 0>>,
     vertex_stream_count |-> IF shape.kinds[m] = "single" THEN 2 ELSE 1]

ShapeLod(shape, i) ==
    [mesh_index |-> IF i = 1 THEN 0
                    ELSE IF i = 2 THEN shape.layout[1] ELSE MeshTotal(shape.layout),
     mesh_count |-> IF i <= Len(shape.layout) THEN shape.layout[i] ELSE 0,
     vertex_buffer_size |-> 0, index_buffer_size |-> 0, vertex_data_offset |-> 0,
     index_data_offset |-> 0, edge_geometry_data_offset |-> 0]

ShapeHeader(shape) ==
    [string_size |-> 4, mesh_count |-> MeshTotal(shape.layout), attribute_count |-> 1,
     submesh_count |-> MeshTotal(shape.layout), material_count |-> 1, bone_count |-> 1,
     bone_table_count |-> 1, shape_count |-> shape.unread,
     shape_mesh_count |-> shape.unread, shape_value_count |-> shape.unread,
     lod_count |-> Len(shape.layout), element_id_count |-> 0,
     terrain_shadow_mesh_count |-> shape.unread,
     terrain_shadow_submesh_count |-> shape.unread]

\* the model data of a file: the vertex and index regions of the LODs follow
\* the serialized headers, one LOD after the other
ShapeModel(shape) ==
    LET count == MeshTotal(shape.layout)
        lods0 == [i \in 1..3 |-> ShapeLod(shape, i)]
        meshes == UpdateLods([m \in 1..count |-> ShapeMesh(shape, m)], lods0, 0,
                             Len(shape.layout))
        model0 == [header |-> ShapeHeader(shape), lods |-> lods0, meshes |-> meshes,
                   submeshes |-> [m \in 1..count |->
                                     [index_offset |-> 0,
                                      index_count |-> meshes[m].index_count]],
                   submesh_bone_map_size |-> 2,
                   padding_amount |-> shape.padding_amount]
        sized == [i \in 1..3 |->
                     IF shape.padded THEN SizedLod(meshes, lods0[i])
                     ELSE [SizedLod(meshes, lods0[i]) EXCEPT
                              !.index_buffer_size =
                                  SumMeshes(meshes, lods0[i].mesh_index,
                                            lods0[i].mesh_index + lods0[i].mesh_count,
                                            "index")]]
    IN [model0 EXCEPT !.lods = PlaceLods(sized, 1, 68 + 136 * count
                                                   + ModelDataFootprint(model0))]

ShapeFileHeader(shape) ==
    LET model == ShapeModel(shape)
        count == MeshTotal(shape.layout)
        header == [ExampleHeader EXCEPT
                      !.version = 16777221,
                      !.vertex_declaration_count = count,
                      !.material_count = 1,
                      !.lod_count = shape.file_lods,
                      !.vertex_declarations =
                          [m \in 1..count |-> ShapeDeclaration(shape, m)],
                      !.runtime_size = ModelDataFootprint(model),
                      !.vertex_offsets = Mirror(@, model.lods, 3, "vertex_data_offset"),
                      !.vertex_buffer_size = Mirror(@, model.lods, 3, "vertex_buffer_size"),
                      !.index_offsets = Mirror(@, model.lods, 3, "index_data_offset"),
                      !.index_buffer_size = Mirror(@, model.lods, 3, "index_buffer_size")]
    IN [header EXCEPT !.stack_size = 136 * count]

\* the byte at position p of a file: a byte of the vertex element or of the
\* index stored there, a zero byte anywhere else
ShapeByte(shape, file_header, model, p) ==
    LET slots == {s \in (1..Len(shape.layout)) \X (1..MaxMeshes) :
                     s[2] > model.lods[s[1]].mesh_index
                     /\ s[2] <= model.lods[s[1]].mesh_index + model.lods[s[1]].mesh_count}
        elements ==
            {x \in slots \X (0..1) \X (1..2) :
                /\ x[2] < model.meshes[x[1][2]].vertex_count
                /\ x[3] <= Len(file_header.vertex_declarations[x[1][2]])
                /\ LET element == file_header.vertex_declarations[x[1][2]][x[3]]
                       pos == ElementPosition(model.lods[x[1][1]], model.meshes[x[1][2]],
                                              element, x[2])
                   IN p >= pos
                      /\ p < pos + Len(StoredElement(ShapeVertices(shape, x[1][2])[x[2] + 1],
                                                     element))}
        indices ==
            {x \in slots \X (1..3) :
                /\ x[2] <= model.meshes[x[1][2]].index_count
                /\ LET pos == IndexPosition(file_header, x[1][1] - 1, model.meshes[x[1][2]])
                              + 2 * (x[2] - 1)
                   IN p >= pos /\ p < pos + 2}
    IN IF elements # {}
       THEN LET x == CHOOSE y \in elements : TRUE
                element == file_header.vertex_declarations[x[1][2]][x[3]]
            IN StoredElement(ShapeVertices(shape, x[1][2])[x[2] + 1], element)
                   [p - ElementPosition(model.lods[x[1][1]], model.meshes[x[1][2]],
                                        element, x[2]) + 1]
       ELSE IF indices # {}
       THEN LET x == CHOOSE y \in indices : TRUE
            IN EncodeLane("u16", ShapeIndices(shape, x[1][2])[x[2]])
                   [p - (IndexPosition(file_header, x[1][1] - 1, model.meshes[x[1][2]])
                         + 2 * (x[2] - 1)) + 1]
       ELSE ZeroByte

\* the file of a shape as the reader's cursor sees it after the headers
ShapeFile(shape) ==
    LET file_header == ShapeFileHeader(shape)
        model == ShapeModel(shape)
        start == FileHeaderFootprint(file_header) + ModelDataFootprint(model)
        end == model.lods[3].index_data_offset + model.lods[3].index_buffer_size
    IN [file_header |-> file_header, model_data |-> model,
        data |-> [start |-> start,
                  bytes |-> [n \in 1..(end - start) |->
                                ShapeByte(shape, file_header, model, start + n - 1)]]]

----------------------------------------------------------------------------
(* Models (src/src/model.rs): reading, replacing and writing a file *)

NoArguments == [lod_index |-> 0, part_index |-> 0, vertices |-> <<>>, indices |-> <<>>,
                submeshes |-> <<>>]

NoWritten(buffer) == [tag |-> None, intact |-> TRUE, buffer |-> buffer]

\* the arguments of replace_vertices for a part with declaration `kind`
ReplacementVertices(kind) ==
    {<<>>, <<ModelVertex(kind, 5)>>, <<ModelVertex(kind, 6), ModelVertex(kind, 5)>>,
     <<ModelVertex(kind, 5), ModelVertex(kind, 6), ModelVertex(kind, 7)>>}
ReplacementIndices == {<<>>, <<0>>, <<1, 0, 1, 2, 0, 1, 2>>}
ReplacementSubmeshes ==
    {<<>>, <<[submesh_index |-> 0, index_count |-> 1, index_offset |-> 0]>>}

\* a file in memory, not read yet
FileInMemory(shape) ==
    [op |-> "file", done |-> TRUE, stage |-> "bytes", shape |-> shape,
     input |-> ShapeFile(shape), tag |-> "Some", mdl |-> NoMDL(ShapeFile(shape)),
     replaced |-> FALSE, arguments |-> NoArguments,
     written |-> NoWritten(ShapeFile(shape)), reread |-> NoMDL(ShapeFile(shape))]

ModelInit ==
    /\ NoFacade
    /\ last \in {FileInMemory(shape) : shape \in Shapes}

\* the usages and types of a vertex element; "Other" is any type beside
\* the five that from_existing and write_to_buffer name
VertexUsages == {"Position", "BlendWeights", "BlendIndices", "Normal", "UV", "Tangent",
                 "BiTangent", "Color"}
VertexTypes == {"Single3", "Single4", "UInt", "ByteFloat4", "Half4", "Other"}

\* files of one mesh whose declaration is one element, with and without a
\* vertex
PairShapes ==
    {[kinds |-> <<"one">>, layout |-> <<1>>, padded |-> TRUE, padding_amount |-> 7,
      file_lods |-> 1, unread |-> 0, pair |-> pair, count |-> count] :
        pair \in VertexUsages \X VertexTypes, count \in 0..1}

PairInit ==
    /\ NoFacade
    /\ last \in {FileInMemory(shape) : shape \in PairShapes}

\* MDL::from_existing on the file, or on the buffer write_to_buffer returned
MdlFromExisting ==
    \/ /\ last.stage = "bytes"
       /\ last' = [last EXCEPT !.op = "from_existing", !.stage = "read",
                               !.tag = MDL_from_existing(last.input).tag,
                               !.mdl = MDL_from_existing(last.input).mdl]
       /\ UNCHANGED facade
    \/ /\ last.stage = "written"
       /\ last.tag = "Some"
       /\ last' = [last EXCEPT !.op = "from_existing", !.stage = "reread",
                               !.tag = MDL_from_existing(last.written.buffer).tag,
                               !.reread = MDL_from_existing(last.written.buffer).mdl]
       /\ UNCHANGED facade

\* MDL::replace_vertices on one part of the model read
ReplaceVertices ==
    /\ last.stage = "read"
    /\ last.tag = "Some"
    /\ \E lod_index \in 0..(Len(last.mdl.lods) - 1) :
       \E part_index \in 0..(Len(last.mdl.lods[lod_index + 1].parts) - 1) :
       \E vertices \in ReplacementVertices(
                           last.shape.kinds[last.mdl.lods[lod_index + 1]
                                                .parts[part_index + 1].mesh_index + 1]) :
       \E indices \in ReplacementIndices :
       \E submeshes \in ReplacementSubmeshes :
          LET r == replace_vertices(last.mdl, lod_index, part_index, vertices, indices,
                                    submeshes)
          IN last' = [last EXCEPT !.op = "replace_vertices", !.stage = "replaced",
                                  !.tag = r.tag, !.mdl = r.mdl, !.replaced = TRUE,
                                  !.arguments = [lod_index |-> lod_index,
                                                 part_index |-> part_index,
                                                 vertices |-> vertices,
                                                 indices |-> indices,
                                                 submeshes |-> submeshes]]
    /\ UNCHANGED facade

\* MDL::write_to_buffer on the model read, replaced or not
WriteToBuffer ==
    /\ last.stage \in {"read", "replaced"}
    /\ last.tag = "Some"
    /\ last' = [last EXCEPT !.op = "write_to_buffer", !.stage = "written",
                            !.tag = write_to_buffer(last.mdl).tag,
                            !.written = write_to_buffer(last.mdl)]
    /\ UNCHANGED facade

ModelNext == MdlFromExisting \/ ReplaceVertices \/ WriteToBuffer

ModelSpec == ModelInit /\ [][ModelNext]_vars

\* the same calls on the files of one element
PairSpec == PairInit /\ [][ModelNext]_vars

\* the file with only the bytes the writer was asked for: a buffer ends with
\* its last index, so the padding after the indices of the last LOD is set
\* aside when two buffers are compared
SameFile(a, b) ==
    /\ a.file_header = b.file_header
    /\ a.model_data = b.model_data
    /\ a.data.start = b.data.start
    /\ \A n \in 1..(IF Len(a.data.bytes) > Len(b.data.bytes)
                    THEN Len(a.data.bytes) ELSE Len(b.data.bytes)) :
          (IF n <= Len(a.data.bytes) THEN a.data.bytes[n] ELSE ZeroByte)
              = (IF n <= Len(b.data.bytes) THEN b.data.bytes[n] ELSE ZeroByte)

\* C14: a model read from a file and not mutated is written back as the
\* bytes of the file: write_to_buffer returns a buffer, and that buffer is
\* the file, the zero padding at its end apart
C14_WriteIsIdempotent ==
    (last.stage = "written" /\ ~last.replaced) =>
        /\ last.written.tag = "Some"
        /\ last.written.intact
        /\ SameFile(last.written.buffer, last.input)

\* the part replace_vertices was called on, in the model read back
RereadPart ==
    last.reread.lods[last.arguments.lod_index + 1].parts[last.arguments.part_index + 1]

\* C15: after replace_vertices, write_to_buffer and from_existing, the part
\* has the vertices and the indices that were passed, and the mesh offsets
\* and LOD offsets read back are the recomputed ones
C15_ReplaceRoundTrip ==
    (last.stage = "reread" /\ last.replaced) =>
        /\ last.tag = "Some"
        /\ RereadPart.vertices = last.arguments.vertices
        /\ RereadPart.indices = last.arguments.indices
        /\ last.reread.model_data.meshes = last.mdl.model_data.meshes
        /\ last.reread.model_data.lods = last.mdl.model_data.lods

\* the model right after replace_vertices returned
Replaced == last.stage = "replaced" /\ last.tag = "Some"

\* the bytes of the streams before stream s (from 1) of a mesh
EarlierStreams(mesh, s) ==
    (IF s > 1 THEN mesh.vertex_count * mesh.vertex_buffer_strides[1] ELSE 0)
    + (IF s > 2 THEN mesh.vertex_count * mesh.vertex_buffer_strides[2] ELSE 0)

\* the meshes of LOD i (from 1) of a model have the running sums of the LOD:
\* start_index is the number of indices of the earlier meshes, the offset of
\* a stream is the bytes of the earlier meshes and of the earlier streams,
\* and the last stream of the last mesh ends at vertex_buffer_size
RunningSums(model, i) ==
    LET lod == model.lods[i]
        first == lod.mesh_index
    IN \A j \in (first + 1)..(first + lod.mesh_count) :
          LET mesh == model.meshes[j]
          IN /\ 2 * mesh.start_index = SumMeshes(model.meshes, first, j - 1, "index")
             /\ \A s \in 1..mesh.vertex_stream_count :
                   mesh.vertex_buffer_offsets[s]
                       = SumMeshes(model.meshes, first, j - 1, "vertex")
                         + EarlierStreams(mesh, s)
             /\ j = first + lod.mesh_count =>
                   SumMeshes(model.meshes, first, j - 1, "vertex")
                       + mesh.vertex_count * TotalStride(mesh) = lod.vertex_buffer_size

\* C22: after replace_vertices, in every LOD the start_index and the stream
\* offsets of the meshes are the running sums over the LOD's earlier meshes
\* and the mesh's earlier streams, ending at the LOD's vertex_buffer_size
C22_RunningOffsets ==
    Replaced => \A i \in 1..3 : RunningSums(last.mdl.model_data, i)

RECURSIVE Total(_)
\* the sum of a sequence of numbers
Total(numbers) == IF numbers = <<>> THEN 0 ELSE Head(numbers) + Total(Tail(numbers))

\* the vertex bytes and the index bytes of the meshes of a LOD
LodVertexBytes(model, lod) ==
    Total([n \in 1..lod.mesh_count |->
              LET mesh == model.meshes[lod.mesh_index + n]
              IN mesh.vertex_count
                 * Total([s \in 1..mesh.vertex_stream_count |->
                             mesh.vertex_buffer_strides[s]])])
LodIndexBytes(model, lod) ==
    2 * Total([n \in 1..lod.mesh_count |-> model.meshes[lod.mesh_index + n].index_count])

\* C23: after replace_vertices, the vertex_buffer_size of every LOD is the
\* sum over its meshes of vertex_count times the strides of the mesh's
\* streams, and its index_buffer_size is the smallest multiple of 16 that is
\* not below twice the number of indices of its meshes
C23_BufferSizes ==
    Replaced =>
        \A i \in 1..3 :
            LET lod == last.mdl.model_data.lods[i]
                raw == LodIndexBytes(last.mdl.model_data, lod)
            IN /\ lod.vertex_buffer_size = LodVertexBytes(last.mdl.model_data, lod)
               /\ lod.index_buffer_size % 16 = 0
               /\ lod.index_buffer_size >= raw
               /\ lod.index_buffer_size < raw + 16

\* a LOD whose indices fill 16 bytes exactly, beside a LOD without indices
C23_Witness ==
    /\ Replaced
    /\ \E i \in 1..3 :
          LET lod == last.mdl.model_data.lods[i]
          IN /\ lod.mesh_count > 0
             /\ LodIndexBytes(last.mdl.model_data, lod) = 16
             /\ lod.index_buffer_size = 16
             /\ lod.vertex_buffer_size > 0
    /\ \E i \in 1..3 :
          LET lod == last.mdl.model_data.lods[i]
          IN LodIndexBytes(last.mdl.model_data, lod) = 0 /\ lod.index_buffer_size = 0

\* bytes of the fixed part of the file header as serialized: five counters
\* of 12 bytes in all, four arrays of three u32, three single bytes and one
\* byte of padding
FileHeaderSize == 68

\* C24: after replace_vertices the first LOD starts at the size of the
\* serialized file header plus stack_size plus runtime_size, the index
\* region of a LOD follows its vertex region, the next LOD follows the index
\* region, and the first LOD starts where the serialized headers end
C24_LodOffsets ==
    Replaced =>
        LET lods == last.mdl.model_data.lods
            file_header == last.mdl.file_header
        IN /\ lods[1].vertex_data_offset
                  = FileHeaderSize + file_header.stack_size + file_header.runtime_size
           /\ \A i \in 1..3 :
                 lods[i].index_data_offset
                     = lods[i].vertex_data_offset + lods[i].vertex_buffer_size
           /\ \A i \in 1..2 :
                 lods[i + 1].vertex_data_offset
                     = lods[i].index_data_offset + lods[i].index_buffer_size
           /\ lods[1].vertex_data_offset
                  = FileHeaderFootprint(file_header)
                    + ModelDataFootprint(last.mdl.model_data)

\* slot i (from 1) of the four arrays of the file header holds the values
\* of LOD i of the model data
Mirrored(mdl, i) ==
    /\ mdl.file_header.vertex_offsets[i] = mdl.model_data.lods[i].vertex_data_offset
    /\ mdl.file_header.index_offsets[i] = mdl.model_data.lods[i].index_data_offset
    /\ mdl.file_header.vertex_buffer_size[i] = mdl.model_data.lods[i].vertex_buffer_size
    /\ mdl.file_header.index_buffer_size[i] = mdl.model_data.lods[i].index_buffer_size

\* C25: after replace_vertices, each of the three slots of vertex_offsets,
\* index_offsets, vertex_buffer_size and index_buffer_size of the file
\* header equals the value of the LOD of that slot
C25_HeaderMirrorsLods ==
    Replaced => \A i \in 1..3 : Mirrored(last.mdl, i)

\* C26: after replace_vertices, runtime_size of the file header is the
\* number of bytes the model data occupies as write_to_buffer serializes it
C26_RuntimeSizeIsFootprint ==
    Replaced => last.mdl.file_header.runtime_size = ModelDataFootprint(last.mdl.model_data)

\* the ten pairs of the claim
ClaimedPairs ==
    { <<"Position", "Half4">>, <<"Position", "Single3">>, <<"Normal", "Half4">>,
      <<"Normal", "Single3">>, <<"UV", "Half4">>, <<"UV", "Single4">>,
      <<"BiTangent", "ByteFloat4">>, <<"BlendWeights", "ByteFloat4">>,
      <<"BlendIndices", "UInt">>, <<"Color", "ByteFloat4">> }

\* the call that just returned had a mesh to decode or encode whose
\* declaration is the element last.shape.pair
FirstRead == last.stage = "read"
Wrote == last.stage = "written"

\* C27 as claimed: a file whose mesh declares a pair is read if the pair is
\* one of the ten and is a fatal error if not, and write_to_buffer writes a
\* model if the pair of its mesh is one of the ten and fails if not
C27_ExactPairs ==
    /\ FirstRead =>
          last.tag = (IF last.shape.pair \in ClaimedPairs THEN "Some" ELSE Panic)
    /\ Wrote =>
          last.written.tag = (IF last.shape.pair \in ClaimedPairs THEN "Some" ELSE Panic)

\* C27, amended: the pairs are told apart vertex by vertex.  A mesh with at
\* least one vertex is read, and a part with at least one vertex is
\* written, exactly when its pair is one of the ten, and fails otherwise; a
\* mesh or part without vertices is read and written whatever it declares
C27_ExactPairsOfVertices ==
    /\ FirstRead =>
          last.tag = (IF last.shape.pair \in ClaimedPairs \/ last.shape.count = 0
                      THEN "Some" ELSE Panic)
    /\ Wrote =>
          last.written.tag
              = (IF last.shape.pair \in ClaimedPairs
                    \/ last.mdl.lods[1].parts[1].vertices = <<>>
                 THEN "Some" ELSE Panic)

\* write_to_buffer refused a vertex of a mesh that declares a Tangent, read
\* from a file in which that mesh had no vertex
C27_Witness ==
    /\ Wrote
    /\ last.replaced
    /\ last.shape.pair = <<"Tangent", "ByteFloat4">>
    /\ last.mdl.lods[1].parts[1].vertices # <<>>
    /\ last.written.tag = Panic

----------------------------------------------------------------------------
(* Repairing an installation that is already loaded *)

\* a session whose repositories were loaded from the directories `loaded`,
\* after which at most one patch chunk was applied
RepairInit ==
    /\ \E loaded \in {d \in [DirNames -> InitDirs \cup {NoDir}] :
                         /\ d[BaseName].exists
                         /\ d["ex1"].exists
                         /\ d["ex2"] = NoDir} :
          /\ reload_disk = loaded
          /\ disk \in {loaded} \cup {apply_patch(loaded, chunk) : chunk \in Chunks}
          /\ \E order \in ScanOrders(loaded) :
                repositories = reload_repositories(<<>>, loaded, order)
    /\ index_files = [k \in {} |-> NoIndex]
    /\ alive = TRUE
    /\ steps = 0
    /\ writes = 0
    /\ last = NoCall
    /\ parse_count = [k \in {} |-> 0]
    /\ seen_all = Unseen
    /\ seen_kept = Unseen

\* the repair sequence of a launcher: ask, repair what was listed, reload, ask
RepairNext ==
    \/ last.op \in {"none", "reload_repositories"} /\ NeedsRepair
    \/ last.op = "needs_repair" /\ PerformRepair /\ last'.list = last.list
    \/ last.op = "perform_repair" /\ ReloadRepositories

RepairSpec == RepairInit /\ [][RepairNext]_vars

\* the repositories in memory are the ones a reload would find now
Current(d, repos) ==
    \E order \in ScanOrders(d) : repos = reload_repositories(repos, d, order)

\* perform_repair returned Ok for the list needs_repair returned
RepairedAsAsked ==
    /\ Repaired
    /\ last.result = "Ok"
    /\ last.list # <<>>
    /\ last.list = needs_repair(last.pre, repositories)

\* needs_repair after a following reload_repositories
AfterReload(order) == needs_repair(disk, reload_repositories(repositories, disk, order))

\* C28: if perform_repair returns Ok for the list that needs_repair returned,
\* then after a following reload_repositories needs_repair returns None.
C28_RepairConverges ==
    RepairedAsAsked => \A order \in ScanOrders(disk) : AfterReload(order) = <<>>

\* C28, amended: after the reload no repaired repository is listed again, and
\* needs_repair returns None when the repositories in memory at the time of
\* the repair were the ones the directories held.
C28_RepairedStayRepaired ==
    RepairedAsAsked =>
        \A order \in ScanOrders(disk) :
            /\ \A i \in 1..Len(AfterReload(order)) :
                  AfterReload(order)[i].repo \notin Listed
            /\ Current(last.pre, repositories) => AfterReload(order) = <<>>

C28_Witness ==
    /\ RepairedAsAsked
    /\ Current(last.pre, repositories)
    /\ \E i, j \in 1..Len(last.list) :
          /\ last.list[i].action = VersionFileMissing
          /\ last.list[j].action = VersionFileCanRestore
----------------------------------------------------------------------------
(* exists and extract on the same state *)

\* a repository directory with a version, an index and a dat file
LookupDirs ==
    { [exists |-> TRUE,
       files |-> WriteFile([x \in {IndexFileName(10), DatFileName(10, 0)} |->
                               IF x.kind = "index" THEN index ELSE dat],
                           VerFile, "2023.01.01.0000.0000")] :
      index \in {"idxA", "idxB", "idxEmpty"}, dat \in {"datA", "datB"} }

\* a session whose repositories are loaded and no index is memoized yet
LookupInit ==
    /\ disk \in {d \in [DirNames -> LookupDirs \cup {NoDir}] :
                    /\ d[BaseName].exists
                    /\ d["ex1"].exists
                    /\ d["ex2"] = NoDir}
    /\ \E order \in ScanOrders(disk) :
          repositories = reload_repositories(<<>>, disk, order)
    /\ reload_disk = disk
    /\ index_files = [k \in {} |-> NoIndex]
    /\ alive = TRUE
    /\ steps = 0
    /\ writes = 0
    /\ last = NoCall
    /\ parse_count = [k \in {} |-> 0]
    /\ seen_all = Unseen
    /\ seen_kept = Unseen

LookupNext ==
    \/ Exists
    \/ Extract
    \/ ApplyPatch

LookupSpec == LookupInit /\ [][LookupNext]_vars

ExistsNow(path) == exists(index_files, disk, repositories, path)
ExtractNow(path) == extract(index_files, disk, repositories, path)

\* the entry both calls find for the path in the memoized index
EntryNow(path) == FindEntry(ExistsNow(path).memo[ExistsNow(path).key], calculate_hash(path))

\* the dat file the entry names is on disk
DatOpens(path) ==
    LET dir == disk[ExistsNow(path).key.repo]
    IN /\ dir.exists
       /\ DatFileName(ExistsNow(path).key.cat, EntryNow(path).data_file_id) \in DOMAIN dir.files

\* the block at the entry's offset decodes
BlockDecodes(path) ==
    LET dir == disk[ExistsNow(path).key.repo]
    IN ReadBlock(dir.files[DatFileName(ExistsNow(path).key.cat,
                                       EntryNow(path).data_file_id)],
                 EntryNow(path).offset) # None

\* C29: in every state, extract(p) returning Some implies exists(p) returns
\* true, exists(p) returning false implies extract(p) returns None, and
\* exists(p) true with extract(p) None happens only when the dat file cannot
\* be opened or the block cannot be decoded.
C29_ExistsAgreesWithExtract ==
    \A path \in Paths :
        /\ ExtractNow(path).result \notin {None, Panic} => ExistsNow(path).result = "true"
        /\ ExistsNow(path).result = "false" => ExtractNow(path).result = None
        /\ (ExistsNow(path).result = "true" /\ ExtractNow(path).result = None)
              => /\ EntryNow(path).hash = calculate_hash(path)
                 /\ ~DatOpens(path) \/ ~BlockDecodes(path)

\* one path is in its index and cannot be read, another is not in its index
C29_Witness ==
    /\ alive
    /\ last.op \in {"exists", "extract"}
    /\ \E path \in Paths :
          /\ path = last.path
          /\ ExistsNow(path).result = "true"
          /\ ExtractNow(path).result = None
    /\ \E path \in Paths :
          /\ ExistsNow(path).result = "false"
          /\ ExtractNow(path).result = None
----------------------------------------------------------------------------
(* replace_vertices and the other parts *)

\* the model as it was read, before replace_vertices
Before == MDL_from_existing(last.input).mdl

ReplacedLod == last.arguments.lod_index + 1
ReplacedPart == last.arguments.part_index + 1

\* the submesh records of the part replace_vertices was called on
ReplacedRecords ==
    {Before.lods[ReplacedLod].parts[ReplacedPart].submeshes[i].submesh_index + 1 :
        i \in 1..Len(Before.lods[ReplacedLod].parts[ReplacedPart].submeshes)}

SamePart(a, b) == a.vertices = b.vertices /\ a.indices = b.indices

SameRecord(a, b) == a.index_offset = b.index_offset /\ a.index_count = b.index_count

\* another part than the replaced one exists
OtherParts ==
    \E l \in 1..Len(Before.lods) : \E p \in 1..Len(Before.lods[l].parts) :
        <<l, p>> # <<ReplacedLod, ReplacedPart>>

\* C30: after replace_vertices on one part, write_to_buffer and
\* MDL::from_existing, every other part of every LOD has the vertices and the
\* indices it had before the call, and the submesh records that do not belong
\* to the replaced part keep their index_offset and index_count.
C30_OtherPartsUnchanged ==
    (last.stage = "reread" /\ last.replaced) =>
        /\ last.tag = "Some"
        /\ Len(last.reread.lods) = Len(Before.lods)
        /\ \A l \in 1..Len(Before.lods) :
              /\ Len(last.reread.lods[l].parts) = Len(Before.lods[l].parts)
              /\ \A p \in 1..Len(Before.lods[l].parts) :
                    <<l, p>> # <<ReplacedLod, ReplacedPart>>
                        => SamePart(last.reread.lods[l].parts[p], Before.lods[l].parts[p])
        /\ Len(last.reread.model_data.submeshes) = Len(Before.model_data.submeshes)
        /\ \A n \in 1..Len(Before.model_data.submeshes) :
              n \notin ReplacedRecords
                  => SameRecord(last.reread.model_data.submeshes[n],
                                Before.model_data.submeshes[n])
====
